---- MODULE Spec2Model ----
(***************************************************************************)
(* A model of egui-rad-builder (TimTheBig/egui-rad-builder): the editor    *)
(* session of src/src/app.rs (RadBuilderApp), the scene model of           *)
(* src/src/widget/mod.rs and src/src/project.rs, the JSON interchange and  *)
(* the code generator (generate_code / emit_widget).                       *)
(*                                                                         *)
(* Conventions.                                                            *)
(*  - A Rust String is a sequence of one-character strings, so that        *)
(*    escape, trim and the indentation count work on characters.           *)
(*  - Option<T> is a sequence of length 0 (None) or 1 (Some).              *)
(*  - f32 geometry is modelled in whole pixels and f32 property values in  *)
(*    thousandths (value 0.25 is 250): every number the model uses is      *)
(*    exactly representable.                                               *)
(*  - One step of the editor is one frame of RadBuilderApp::update with    *)
(*    one user event in it; the parts of the frame that always run         *)
(*    (preview_panels_ui's sort and draw pass) are part of every step.     *)
(***************************************************************************)
EXTENDS Integers, Sequences, FiniteSets, TLC

(***************************************************************************)
(* Bounds of the model.                                                    *)
(***************************************************************************)
\* spawn_widget and Duplicate are not offered once the scene holds this many widgets
MaxWidgets == 2
\* spawn_widget and Duplicate are not offered once next_id exceeds this
MaxId == 3
\* in a session of SpecEdit the palette is not used once the scene holds this many widgets
MaxEditWidgets == 1
\* the largest value typed into the "Selected index" box
MaxIndex == 2
\* the lines of a Tree document
MaxLines == 4
\* the spaces before a label of a Tree document
MaxSpaces == 6
\* the characters of a Label text
MaxText == 4

(***************************************************************************)
(* Small helpers.                                                          *)
(***************************************************************************)
None == <<>>
Some(x) == <<x>>
IsSome(o) == Len(o) = 1
Unwrap(o) == o[1]

Min(a, b) == IF a <= b THEN a ELSE b
Max(a, b) == IF a >= b THEN a ELSE b
\* a clamp that leaves the value as it is
NoClamp(v, lo, hi) == v
\* Ord::clamp / u32::clamp with lo <= hi
Clamp(v, lo, hi) == Max(lo, Min(v, hi))
\* usize::saturating_sub
SaturatingSub(a, b) == IF a >= b THEN a - b ELSE 0

SeqToSet(s) == { s[i] : i \in 1..Len(s) }
\* Vec::retain / Iterator::filter
RECURSIVE SelectIdx(_, _, _)
SelectIdx(s, keep, i) ==
    IF i > Len(s) THEN <<>>
    ELSE IF i \in keep THEN <<s[i]>> \o SelectIdx(s, keep, i + 1)
    ELSE SelectIdx(s, keep, i + 1)
RECURSIVE Concat(_)
Concat(ss) == IF ss = <<>> THEN <<>> ELSE Head(ss) \o Concat(Tail(ss))

(***************************************************************************)
(* Strings used by the program, as character sequences.                    *)
(***************************************************************************)
SP == " "
QUOTE == "\""
BSLASH == "\\"
NL == "\n"
S_Label == <<"L","a","b","e","l">>
S_Menu == <<"M","e","n","u">>
S_Button == <<"B","u","t","t","o","n">>
S_Checkbox == <<"C","h","e","c","k","b","o","x">>
S_TypeHere == <<"T","y","p","e"," ","h","e","r","e">>
S_Value == <<"V","a","l","u","e">>
S_RadioGroup == <<"R","a","d","i","o"," ","G","r","o","u","p">>
S_LinkText == <<"L","i","n","k"," ","t","e","x","t">>
S_OpenWebsite == <<"O","p","e","n"," ","w","e","b","s","i","t","e">>
S_Url == <<"h","t","t","p","s",":","/","/","e","x","a","m","p","l","e",".","c","o","m">>
S_Selectable == <<"S","e","l","e","c","t","a","b","l","e">>
S_ChooseOne == <<"C","h","o","o","s","e"," ","o","n","e">>
S_Section == <<"S","e","c","t","i","o","n">>
S_PickADate == <<"P","i","c","k"," ","a"," ","d","a","t","e">>
S_Angle == <<"A","n","g","l","e"," ","(","d","e","g",")">>
S_Password == <<"p","a","s","s","w","o","r","d">>
S_Tree == <<"T","r","e","e">>
S_Item == <<"I","t","e","m">>
S_Root == <<"R","o","o","t">>
S_Child2 == <<" "," ","C","h","i","l","d">>
\* the picture emoji of spawn_widget, and the mis-encoded one of WidgetProps::default
\* (different byte strings in the source; one stand-in character each)
S_IconPicture == <<"@">>
S_IconDefault == <<"@","?">>
ItemsMenu == << <<"F","i","r","s","t">>, <<"S","e","c","o","n","d">>, <<"T","h","i","r","d">> >>
ItemsRadio == << <<"O","p","t","i","o","n"," ","A">>, <<"O","p","t","i","o","n"," ","B">>,
                 <<"O","p","t","i","o","n"," ","C">> >>
ItemsCombo == << <<"R","e","d">>, <<"G","r","e","e","n">>, <<"B","l","u","e">> >>
ItemsTree == << <<"A","n","i","m","a","l","s">>,
                <<" "," ","M","a","m","m","a","l","s">>,
                <<" "," "," "," ","D","o","g","s">>,
                <<" "," "," "," ","C","a","t","s">>,
                <<" "," ","B","i","r","d","s">>,
                <<"P","l","a","n","t","s">>,
                <<" "," ","T","r","e","e","s">>,
                <<" "," ","F","l","o","w","e","r","s">> >>

(***************************************************************************)
(* widget/mod.rs: the scene model.                                         *)
(***************************************************************************)
DockAreas == {"Free", "Top", "Bottom", "Left", "Right", "Center"}
WidgetKinds == {"MenuButton", "Label", "Button", "ImageTextButton", "Checkbox", "TextEdit",
                "Slider", "ProgressBar", "RadioGroup", "Link", "Hyperlink", "SelectableLabel",
                "ComboBox", "Separator", "CollapsingHeader", "DatePicker", "AngleSelector",
                "Password", "Tree"}

I32Max == 2147483647
\* WidgetId::as_z: `self.0 as i32` keeps the low 32 bits, read as two's complement
\* (written for ids below 2^32, with no literal above 2^31 - 1)
as_z(id) == IF id <= I32Max THEN id ELSE ((id - I32Max) - 1) - I32Max - 1

\* impl Default for WidgetProps
WidgetPropsDefault ==
    [text |-> S_Label, checked |-> FALSE, value |-> 500, min |-> 0, max |-> 1000,
     items |-> <<>>, selected |-> 0, url |-> S_Url,
     year |-> 2024, month |-> 1, day |-> 1, icon |-> S_IconDefault]

Pos(x, y) == [x |-> x, y |-> y]

\* f32::round: halves away from zero; q = n / d for d > 0
RoundDiv(n, d) ==
    IF n >= 0 THEN (2 * n + d) \div (2 * d)
    ELSE 0 - ((2 * (0 - n) + d) \div (2 * d))
\* snap_pos_with_grid (and RadBuilderApp::snap_pos, the same formula)
snap_pos_with_grid(p, grid) == Pos(RoundDiv(p.x, grid) * grid, RoundDiv(p.y, grid) * grid)

(***************************************************************************)
(* app.rs: RadBuilderApp::spawn_widget.                                    *)
(***************************************************************************)
Size(x, y) == [x |-> x, y |-> y]
WithText(t) == [WidgetPropsDefault EXCEPT !.text = t]
\* the (size, props) match of spawn_widget
SpawnDefaults(kind) ==
    CASE kind = "MenuButton" ->
           [size |-> Size(180, 28),
            props |-> [WithText(S_Menu) EXCEPT !.items = ItemsMenu, !.selected = 0]]
      [] kind = "Label" -> [size |-> Size(140, 24), props |-> WithText(S_Label)]
      [] kind = "Button" -> [size |-> Size(160, 32), props |-> WithText(S_Button)]
      [] kind = "ImageTextButton" ->
           [size |-> Size(200, 36), props |-> [WithText(S_Button) EXCEPT !.icon = S_IconPicture]]
      [] kind = "Checkbox" -> [size |-> Size(160, 28), props |-> WithText(S_Checkbox)]
      [] kind = "TextEdit" -> [size |-> Size(220, 36), props |-> WithText(S_TypeHere)]
      [] kind = "Slider" ->
           [size |-> Size(220, 24),
            props |-> [WithText(S_Value) EXCEPT !.min = 0, !.max = 100000, !.value = 42000,
                                                !.checked = FALSE]]
      [] kind = "ProgressBar" ->
           [size |-> Size(220, 20),
            props |-> [WithText(<<>>) EXCEPT !.value = 250, !.min = 0, !.max = 1000,
                                             !.checked = FALSE]]
      [] kind = "RadioGroup" ->
           [size |-> Size(200, 80),
            props |-> [WithText(S_RadioGroup) EXCEPT !.items = ItemsRadio, !.selected = 0]]
      [] kind = "Link" -> [size |-> Size(160, 20), props |-> WithText(S_LinkText)]
      [] kind = "Hyperlink" ->
           [size |-> Size(200, 20), props |-> [WithText(S_OpenWebsite) EXCEPT !.url = S_Url]]
      [] kind = "SelectableLabel" ->
           [size |-> Size(180, 24), props |-> [WithText(S_Selectable) EXCEPT !.checked = FALSE]]
      [] kind = "ComboBox" ->
           [size |-> Size(220, 28),
            props |-> [WithText(S_ChooseOne) EXCEPT !.items = ItemsCombo, !.selected = 0]]
      [] kind = "Separator" -> [size |-> Size(220, 8), props |-> WidgetPropsDefault]
      [] kind = "CollapsingHeader" ->
           [size |-> Size(260, 80), props |-> [WithText(S_Section) EXCEPT !.checked = TRUE]]
      [] kind = "DatePicker" ->
           [size |-> Size(200, 28),
            props |-> [WithText(S_PickADate) EXCEPT !.year = 2025, !.month = 1, !.day = 1]]
      [] kind = "AngleSelector" ->
           [size |-> Size(220, 28),
            props |-> [WithText(S_Angle) EXCEPT !.min = 0, !.max = 360000, !.value = 45000]]
      [] kind = "Password" -> [size |-> Size(220, 36), props |-> WithText(S_Password)]
      [] kind = "Tree" ->
           [size |-> Size(260, 200), props |-> [WithText(S_Tree) EXCEPT !.items = ItemsTree]]

\* the Widget spawn_widget builds: id = next_id, z = id.as_z(), pos = the pointer made
\* local to the area, moved by half the size, snapped to the grid
SpawnedWidget(id, kind, at_global, area, area_origin, grid) ==
    LET d == SpawnDefaults(kind)
        vecpos == Pos(at_global.x - area_origin.x - (d.size.x \div 2),
                      at_global.y - area_origin.y - (d.size.y \div 2))
    IN  [id |-> id, kind |-> kind, pos |-> snap_pos_with_grid(vecpos, grid),
         size |-> d.size, z |-> as_z(id), area |-> area, props |-> d.props]

(***************************************************************************)
(* widget/mod.rs: escape.                                                  *)
(***************************************************************************)
\* str::replace(from, to) for a one-character pattern
RECURSIVE ReplaceChar(_, _, _)
ReplaceChar(s, from, to) ==
    IF s = <<>> THEN <<>>
    ELSE (IF Head(s) = from THEN to ELSE <<Head(s)>>) \o ReplaceChar(Tail(s), from, to)
\* an escape that replaces the double quotes before the backslashes
escape_quotes_first(s) ==
    ReplaceChar(ReplaceChar(s, QUOTE, <<BSLASH, QUOTE>>), BSLASH, <<BSLASH, BSLASH>>)
\* s.replace('\\', "\\\\").replace('"', "\\\"")
escape(s) == ReplaceChar(ReplaceChar(s, BSLASH, <<BSLASH, BSLASH>>), QUOTE, <<BSLASH, QUOTE>>)

(***************************************************************************)
(* widget/mod.rs: the tree parser of emit_widget (parse_nodes, build).     *)
(***************************************************************************)
\* s.chars().take_while(|c| *c == ' ').count()
RECURSIVE LeadingSpaces(_)
LeadingSpaces(s) ==
    IF s = <<>> \/ Head(s) # SP THEN 0 ELSE 1 + LeadingSpaces(Tail(s))
\* the characters str::trim removes that a line of the model can hold
IsWhite(c) == c = SP \/ c = NL
RECURSIVE TrimStart(_)
TrimStart(s) == IF s # <<>> /\ IsWhite(Head(s)) THEN TrimStart(Tail(s)) ELSE s
RECURSIVE TrimEnd(_)
TrimEnd(s) ==
    IF s # <<>> /\ IsWhite(s[Len(s)]) THEN TrimEnd(SubSeq(s, 1, Len(s) - 1)) ELSE s
\* str::trim
Trim(s) == TrimEnd(TrimStart(s))
\* the (indent, label) pairs of parse_nodes, blank labels filtered out
IndentItems(lines) ==
    LET all == [i \in 1..Len(lines) |->
                   [ind |-> LeadingSpaces(lines[i]) \div 2, label |-> Trim(lines[i])]]
    IN  SelectIdx(all, { i \in 1..Len(lines) : all[i].label # <<>> }, 1)
Node(label, children) == [label |-> label, children |-> children]
\* a build that makes every line a node of the level it is called for
RECURSIVE build_flat(_, _, _)
build_flat(items, i, level) ==
    IF i > Len(items) THEN [out |-> <<>>, i |-> i]
    ELSE LET rest == build_flat(items, i + 1, level)
         IN  [out |-> <<Node(items[i].label, <<>>)>> \o rest.out, i |-> rest.i]
\* build(it, level): the while-let loop over the peekable iterator. `i` is the
\* iterator's position; the result is the nodes pushed and the position reached.
RECURSIVE build(_, _, _)
build(items, i, level) ==
    IF i > Len(items) THEN [out |-> <<>>, i |-> i]
    ELSE IF items[i].ind < level THEN [out |-> <<>>, i |-> i]
    ELSE IF items[i].ind > level THEN [out |-> <<>>, i |-> i]
    ELSE LET kids == build(items, i + 1, level + 1)
             rest == build(items, kids.i, level)
         IN  [out |-> <<Node(items[i].label, kids.out)>> \o rest.out, i |-> rest.i]
parse_nodes(lines) == build(IndentItems(lines), 1, 0).out
\* nodes_to_literal: one GenTreeNode constructor call per node, children nested
RECURSIVE nodes_to_literal(_)
nodes_to_literal(nodes) ==
    [k \in 1..Len(nodes) |->
        <<"GenTreeNode", escape(nodes[k].label), nodes_to_literal(nodes[k].children)>>]
\* the line list the Tree arm parses: the default two lines for an empty item list
TreeLines(items) == IF items = <<>> THEN <<S_Root, S_Child2>> ELSE items

(***************************************************************************)
(* widget/mod.rs: Widget::emit_widget.                                     *)
(*                                                                         *)
(* The generated text is a sequence of tokens, one per piece the generator *)
(* pushes.  A construction statement is the token                          *)
(*   <<"stmt", kind, origin, <<x, y, w, h>>, refs, strs, nums, items, forest>>*)
(* with refs the state fields the statement names (<<prefix, id>>, in the   *)
(* order they appear), strs the escaped string literals, nums the numbers, *)
(* items the `let items = vec![..]` literal and forest the tree literal.   *)
(***************************************************************************)
\* an item literal that is the stored list as it is
items_code_raw(items) == items
\* items_code of the MenuButton, RadioGroup and ComboBox arms
items_code(items) ==
    IF items = <<>> THEN <<S_Item>> ELSE [i \in 1..Len(items) |-> escape(items[i])]
Ref(prefix, id) == <<prefix, id>>
Stmt(w, origin, refs, strs, nums, items, forest) ==
    <<"stmt", w.kind, origin, <<w.pos.x, w.pos.y, w.size.x, w.size.y>>,
      refs, strs, nums, items, forest>>
emit_widget(w, origin) ==
    LET k == w.kind
        id == w.id
        p == w.props
    IN  CASE k = "MenuButton" ->
               <<Stmt(w, origin, <<Ref("sel_", id)>>, <<escape(p.text)>>, <<>>,
                      items_code(p.items), <<>>)>>
          [] k = "Label" -> <<Stmt(w, origin, <<>>, <<escape(p.text)>>, <<>>, <<>>, <<>>)>>
          [] k = "Button" -> <<Stmt(w, origin, <<>>, <<escape(p.text)>>, <<>>, <<>>, <<>>)>>
          [] k = "ImageTextButton" ->
               <<Stmt(w, origin, <<>>, <<escape(p.icon), escape(p.text)>>, <<>>, <<>>, <<>>)>>
          [] k = "Checkbox" ->
               <<Stmt(w, origin, <<Ref("checked_", id)>>, <<escape(p.text)>>, <<>>, <<>>, <<>>)>>
          [] k = "TextEdit" ->
               <<Stmt(w, origin, <<Ref("text_", id)>>, <<escape(p.text)>>, <<>>, <<>>, <<>>)>>
          [] k = "Slider" ->
               <<Stmt(w, origin, <<Ref("value_", id)>>, <<escape(p.text)>>, <<p.min, p.max>>,
                      <<>>, <<>>)>>
          [] k = "ProgressBar" ->
               <<Stmt(w, origin, <<Ref("progress_", id)>>, <<>>, <<>>, <<>>, <<>>)>>
          [] k = "RadioGroup" ->
               <<Stmt(w, origin, <<Ref("sel_", id), Ref("sel_", id)>>, <<>>, <<>>,
                      items_code(p.items), <<>>)>>
          [] k = "Link" -> <<Stmt(w, origin, <<>>, <<escape(p.text)>>, <<>>, <<>>, <<>>)>>
          [] k = "Hyperlink" ->
               <<Stmt(w, origin, <<>>, <<escape(p.text), escape(p.url)>>, <<>>, <<>>, <<>>)>>
          [] k = "SelectableLabel" ->
               <<Stmt(w, origin, <<Ref("sel_", id), Ref("sel_", id), Ref("sel_", id)>>,
                      <<escape(p.text)>>, <<>>, <<>>, <<>>)>>
          [] k = "ComboBox" ->
               <<Stmt(w, origin, <<Ref("sel_", id), Ref("sel_", id)>>, <<>>, <<id>>,
                      items_code(p.items), <<>>)>>
          [] k = "Separator" -> <<Stmt(w, origin, <<>>, <<>>, <<>>, <<>>, <<>>)>>
          [] k = "CollapsingHeader" ->
               <<Stmt(w, origin, <<Ref("open_", id)>>, <<escape(p.text)>>, <<>>, <<>>, <<>>)>>
          [] k = "DatePicker" ->
               <<Stmt(w, origin, <<Ref("date_", id)>>, <<escape(p.text)>>, <<>>, <<>>, <<>>)>>
          [] k = "Password" ->
               <<Stmt(w, origin, <<Ref("pass_", id)>>, <<>>, <<>>, <<>>, <<>>)>>
          [] k = "AngleSelector" ->
               <<Stmt(w, origin, <<Ref("angle_", id)>>, <<escape(p.text)>>, <<p.min, p.max>>,
                      <<>>, <<>>)>>
          [] k = "Tree" ->
               <<Stmt(w, origin, <<>>, <<>>, <<>>, <<>>,
                      nodes_to_literal(parse_nodes(TreeLines(p.items))))>>

(***************************************************************************)
(* app.rs: RadBuilderApp::generate_code.                                   *)
(***************************************************************************)
\* a generate_code that appends to the cached text
KeepGenerated(prev) == prev
\* String::clear on the cached text, the first statement of generate_code
ClearGenerated(prev) == <<>>
\* a has_tree that looks at the first widget only
has_tree_first(widgets) == widgets # <<>> /\ widgets[1].kind = "Tree"
\* the has_tree test
has_tree(widgets) == \E i \in 1..Len(widgets) : widgets[i].kind = "Tree"
\* a struct loop that declares no field
NoStateFields(w) == <<>>
\* the match of the GeneratedState struct loop: the field one widget declares
StateFieldLines(w) ==
    LET k == w.kind
    IN  CASE k = "TextEdit" -> <<<<"field", "text_", w.id, "String">>>>
          [] k = "Checkbox" -> <<<<"field", "checked_", w.id, "bool">>>>
          [] k = "Slider" -> <<<<"field", "value_", w.id, "f32">>>>
          [] k = "ProgressBar" -> <<<<"field", "progress_", w.id, "f32">>>>
          [] k = "SelectableLabel" -> <<<<"field", "sel_", w.id, "bool">>>>
          [] k \in {"RadioGroup", "ComboBox", "MenuButton"} ->
               <<<<"field", "sel_", w.id, "usize">>>>
          [] k = "CollapsingHeader" -> <<<<"field", "open_", w.id, "bool">>>>
          [] k = "DatePicker" -> <<<<"field", "date_", w.id, "NaiveDate">>>>
          [] k = "Password" -> <<<<"field", "pass_", w.id, "String">>>>
          [] k = "AngleSelector" -> <<<<"field", "angle_", w.id, "f32">>>>
          [] OTHER -> <<>>
\* `w.props.items.len() - 1` on usize: None when the subtraction overflows (a panic
\* in a debug build)
LenMinusOne(items) == IF Len(items) >= 1 THEN Some(Len(items) - 1) ELSE None
\* a sel_ default that is the stored index
SelDefaultStored(p) == [val |-> p.selected, abort |-> FALSE]
\* a sel_ default without the is_empty test
SelDefaultUnguarded(p) ==
    LET m == LenMinusOne(p.items)
    IN  IF IsSome(m) THEN [val |-> Min(p.selected, Unwrap(m)), abort |-> FALSE]
        ELSE [val |-> p.selected, abort |-> TRUE]
\* the sel_ default of a RadioGroup, ComboBox or MenuButton: [val, abort]
SelDefault(p) ==
    IF p.items = <<>> THEN [val |-> 0, abort |-> FALSE]
    ELSE LET m == LenMinusOne(p.items)
         IN  IF IsSome(m) THEN [val |-> Min(p.selected, Unwrap(m)), abort |-> FALSE]
             ELSE [val |-> p.selected, abort |-> TRUE]
\* the match of the Default impl loop: the initializer one widget gets.
\* <<"init", prefix, id, form, payload>>
DefaultInitLines(w) ==
    LET k == w.kind
        p == w.props
    IN  CASE k = "TextEdit" -> <<<<"init", "text_", w.id, "str", escape(p.text)>>>>
          [] k = "Checkbox" -> <<<<"init", "checked_", w.id, "bool", <<p.checked>>>>>>
          [] k = "Slider" -> <<<<"init", "value_", w.id, "f3", <<p.value>>>>>>
          [] k = "ProgressBar" ->
               <<<<"init", "progress_", w.id, "f3", <<Clamp(p.value, 0, 1000)>>>>>>
          [] k = "SelectableLabel" -> <<<<"init", "sel_", w.id, "bool", <<p.checked>>>>>>
          [] k \in {"RadioGroup", "ComboBox", "MenuButton"} ->
               <<<<"init", "sel_", w.id, "usize", <<SelDefault(p).val>>>>>>
          [] k = "CollapsingHeader" -> <<<<"init", "open_", w.id, "bool", <<p.checked>>>>>>
          [] k = "DatePicker" ->
               <<<<"init", "date_", w.id, "from_ymd_opt_unwrap",
                   <<p.year, Clamp(p.month, 1, 12), Clamp(p.day, 1, 28)>>>>>>
          [] k = "Password" -> <<<<"init", "pass_", w.id, "str", escape(p.text)>>>>
          [] k = "AngleSelector" -> <<<<"init", "angle_", w.id, "f3", <<p.value>>>>>>
          [] OTHER -> <<>>
\* whether building one widget's initializer aborts
DefaultInitAborts(w) ==
    w.kind \in {"RadioGroup", "ComboBox", "MenuButton"} /\ SelDefault(w.props).abort
\* a bucket loop that pushes each widget to the front of its bucket
BucketReversed(widgets, area) ==
    LET b == SelectIdx(widgets, { i \in 1..Len(widgets) : widgets[i].area = area }, 1)
    IN  [i \in 1..Len(b) |-> b[Len(b) + 1 - i]]
\* the bucket loop: the widgets of one area, in scene order
Bucket(widgets, area) ==
    SelectIdx(widgets, { i \in 1..Len(widgets) : widgets[i].area = area }, 1)
EmitAll(ws, origin) == Concat([i \in 1..Len(ws) |-> emit_widget(ws[i], origin)])
\* a region that is written only for a bucket with widgets
RegionWhenUsed(widgets, name, area) ==
    IF Bucket(widgets, area) = <<>> THEN <<>>
    ELSE <<<<"region_open", name>>>> \o EmitAll(Bucket(widgets, area), "ui.min_rect().min")
             \o <<<<"region_close", name>>>>
\* one docked region of generated_ui: `if state.enable_<r> { <panel>.show(ctx, |ui| { .. }) }`
Region(widgets, name, area) ==
    <<<<"region_open", name>>>> \o EmitAll(Bucket(widgets, area), "ui.min_rect().min")
        \o <<<<"region_close", name>>>>
BoolLit(b) == IF b THEN "true" ELSE "false"
\* the text generate_code leaves in self.generated, and whether it aborted on the way
generate_code(prev, project) ==
    LET ws == project.widgets
        out ==
            ClearGenerated(prev)
            \o <<<<"header">>>>
            \o (IF has_tree(ws) THEN <<<<"tree_helper">>>> ELSE <<>>)
            \o <<<<"struct_open">>, <<"enable_fields">>>>
            \o Concat([i \in 1..Len(ws) |-> StateFieldLines(ws[i])])
            \o <<<<"struct_close">>, <<"default_open">>,
                 <<"enable_inits", BoolLit(project.panel_top_enabled),
                   BoolLit(project.panel_bottom_enabled), BoolLit(project.panel_left_enabled),
                   BoolLit(project.panel_right_enabled)>>>>
            \o Concat([i \in 1..Len(ws) |-> DefaultInitLines(ws[i])])
            \o <<<<"default_close">>, <<"fn_open">>>>
            \o Region(ws, "top", "Top")
            \o Region(ws, "bottom", "Bottom")
            \o Region(ws, "left", "Left")
            \o Region(ws, "right", "Right")
            \o <<<<"central_open", project.canvas_size.x, project.canvas_size.y>>>>
            \o EmitAll(Bucket(ws, "Center"), "canvas.min")
            \o EmitAll(Bucket(ws, "Free"), "canvas.min")
            \o <<<<"central_close">>, <<"fn_close">>, <<"trailer">>>>
    IN  [out |-> out, aborted |-> \E i \in 1..Len(ws) : DefaultInitAborts(ws[i])]

(***************************************************************************)
(* project.rs: Project.  The struct of project.rs holds the widget list,   *)
(* the canvas size and the four panel extents; app.rs reads and writes the *)
(* four panel_*_enabled flags as fields of the same struct.                *)
(***************************************************************************)
\* the value Project::default gives the panel_*_enabled flags
DefaultPanelEnabled == FALSE
\* impl Default for Project
ProjectDefault ==
    [widgets |-> <<>>, canvas_size |-> Size(1200, 800),
     panel_top_h |-> 80, panel_bottom_h |-> 80, panel_left_w |-> 220, panel_right_w |-> 260,
     panel_top_enabled |-> DefaultPanelEnabled, panel_bottom_enabled |-> DefaultPanelEnabled,
     panel_left_enabled |-> DefaultPanelEnabled, panel_right_enabled |-> DefaultPanelEnabled]

(***************************************************************************)
(* The JSON interchange: #[derive(Serialize, Deserialize)] on Project,     *)
(* Widget, WidgetKind (tag = "t", content = "c"), WidgetProps, WidgetId,   *)
(* DockArea, and serde_json::to_string_pretty / from_str.                  *)
(*                                                                         *)
(* A document is the JSON value the text denotes:                          *)
(*   <<"obj", pairs>>  pairs a sequence of <<key, value>>                  *)
(*   <<"arr", values>>, <<"num", n>>, <<"bool", b>>, <<"null">>            *)
(*   <<"str", chars>>  a string value                                      *)
(*   <<"name", n>>     a string value that spells an enum variant's name   *)
(* and <<"text">> is text that is no JSON at all.                          *)
(***************************************************************************)
JObj(pairs) == <<"obj", pairs>>
JArr(vals) == <<"arr", vals>>
JNum(n) == <<"num", n>>
JBool(b) == <<"bool", b>>
JStr(cs) == <<"str", cs>>
JName(n) == <<"name", n>>
JNotJson == <<"text">>

\* egui's Pos2 and Vec2 serialize as {"x": .., "y": ..}
EncodeXY(v) == JObj(<< <<"x", JNum(v.x)>>, <<"y", JNum(v.y)>> >>)
\* a unit variant of an adjacently tagged enum: {"t": "<Variant>"}
EncodeKind(k) == JObj(<< <<"t", JName(k)>> >>)
EncodeProps(p) ==
    JObj(<< <<"text", JStr(p.text)>>, <<"checked", JBool(p.checked)>>,
            <<"value", JNum(p.value)>>, <<"min", JNum(p.min)>>, <<"max", JNum(p.max)>>,
            <<"items", JArr([i \in 1..Len(p.items) |-> JStr(p.items[i])])>>,
            <<"selected", JNum(p.selected)>>, <<"url", JStr(p.url)>>,
            <<"year", JNum(p.year)>>, <<"month", JNum(p.month)>>, <<"day", JNum(p.day)>>,
            <<"icon", JStr(p.icon)>> >>)
EncodeWidget(w) ==
    JObj(<< <<"id", JNum(w.id)>>, <<"kind", EncodeKind(w.kind)>>, <<"pos", EncodeXY(w.pos)>>,
            <<"size", EncodeXY(w.size)>>, <<"z", JNum(w.z)>>, <<"area", JName(w.area)>>,
            <<"props", EncodeProps(w.props)>> >>)
\* serde_json::to_string_pretty(&self.project)
EncodeProject(p) ==
    JObj(<< <<"widgets", JArr([i \in 1..Len(p.widgets) |-> EncodeWidget(p.widgets[i])])>>,
            <<"canvas_size", EncodeXY(p.canvas_size)>>,
            <<"panel_top_h", JNum(p.panel_top_h)>>,
            <<"panel_bottom_h", JNum(p.panel_bottom_h)>>,
            <<"panel_left_w", JNum(p.panel_left_w)>>,
            <<"panel_right_w", JNum(p.panel_right_w)>>,
            <<"panel_top_enabled", JBool(p.panel_top_enabled)>>,
            <<"panel_bottom_enabled", JBool(p.panel_bottom_enabled)>>,
            <<"panel_left_enabled", JBool(p.panel_left_enabled)>>,
            <<"panel_right_enabled", JBool(p.panel_right_enabled)>> >>)

\* A derived Deserialize of a struct: every field present exactly once (a missing or a
\* repeated field is an error), other keys ignored.
IsObj(j) == j[1] = "obj"
KeyIdx(j, key) == { i \in 1..Len(j[2]) : j[2][i][1] = key }
HasFields(j, keys) == IsObj(j) /\ \A k \in keys : Cardinality(KeyIdx(j, k)) = 1
Field(j, key) == j[2][CHOOSE i \in KeyIdx(j, key) : TRUE][2]
IsNum(j) == j[1] = "num"
IsUnsigned(j) == IsNum(j) /\ j[2] >= 0
IsI32(j) == IsNum(j) /\ j[2] >= (0 - I32Max) - 1 /\ j[2] <= I32Max
IsBool(j) == j[1] = "bool"
IsXY(j) == HasFields(j, {"x", "y"}) /\ IsNum(Field(j, "x")) /\ IsNum(Field(j, "y"))
DecodeXY(j) == [x |-> Field(j, "x")[2], y |-> Field(j, "y")[2]]
IsKind(j) ==
    HasFields(j, {"t"}) /\ Field(j, "t")[1] = "name" /\ Field(j, "t")[2] \in WidgetKinds
IsArea(j) == j[1] = "name" /\ j[2] \in DockAreas
PropKeys == {"text", "checked", "value", "min", "max", "items", "selected", "url",
             "year", "month", "day", "icon"}
IsProps(j) ==
    /\ HasFields(j, PropKeys)
    /\ Field(j, "text")[1] = "str"
    /\ IsBool(Field(j, "checked"))
    /\ IsNum(Field(j, "value")) /\ IsNum(Field(j, "min")) /\ IsNum(Field(j, "max"))
    /\ Field(j, "items")[1] = "arr"
    /\ \A i \in 1..Len(Field(j, "items")[2]) : Field(j, "items")[2][i][1] = "str"
    /\ IsUnsigned(Field(j, "selected"))
    /\ Field(j, "url")[1] = "str"
    /\ IsI32(Field(j, "year"))
    /\ IsUnsigned(Field(j, "month")) /\ IsUnsigned(Field(j, "day"))
    /\ Field(j, "icon")[1] = "str"
DecodeProps(j) ==
    [text |-> Field(j, "text")[2], checked |-> Field(j, "checked")[2],
     value |-> Field(j, "value")[2], min |-> Field(j, "min")[2], max |-> Field(j, "max")[2],
     items |-> [i \in 1..Len(Field(j, "items")[2]) |-> Field(j, "items")[2][i][2]],
     selected |-> Field(j, "selected")[2], url |-> Field(j, "url")[2],
     year |-> Field(j, "year")[2], month |-> Field(j, "month")[2],
     day |-> Field(j, "day")[2], icon |-> Field(j, "icon")[2]]
WidgetKeys == {"id", "kind", "pos", "size", "z", "area", "props"}
IsWidget(j) ==
    /\ HasFields(j, WidgetKeys)
    /\ IsUnsigned(Field(j, "id"))
    /\ IsKind(Field(j, "kind"))
    /\ IsXY(Field(j, "pos")) /\ IsXY(Field(j, "size"))
    /\ IsI32(Field(j, "z"))
    /\ IsArea(Field(j, "area"))
    /\ IsProps(Field(j, "props"))
\* a widget decoder that forgets the area
DecodeWidgetNoArea(j) ==
    [id |-> Field(j, "id")[2], kind |-> Field(Field(j, "kind"), "t")[2],
     pos |-> DecodeXY(Field(j, "pos")), size |-> DecodeXY(Field(j, "size")),
     z |-> Field(j, "z")[2], area |-> "Free",
     props |-> DecodeProps(Field(j, "props"))]
DecodeWidget(j) ==
    [id |-> Field(j, "id")[2], kind |-> Field(Field(j, "kind"), "t")[2],
     pos |-> DecodeXY(Field(j, "pos")), size |-> DecodeXY(Field(j, "size")),
     z |-> Field(j, "z")[2], area |-> Field(j, "area")[2],
     props |-> DecodeProps(Field(j, "props"))]
ProjectKeys == {"widgets", "canvas_size", "panel_top_h", "panel_bottom_h", "panel_left_w",
                "panel_right_w", "panel_top_enabled", "panel_bottom_enabled",
                "panel_left_enabled", "panel_right_enabled"}
IsProject(j) ==
    /\ HasFields(j, ProjectKeys)
    /\ Field(j, "widgets")[1] = "arr"
    /\ \A i \in 1..Len(Field(j, "widgets")[2]) : IsWidget(Field(j, "widgets")[2][i])
    /\ IsXY(Field(j, "canvas_size"))
    /\ \A k \in {"panel_top_h", "panel_bottom_h", "panel_left_w", "panel_right_w"} :
          IsNum(Field(j, k))
    /\ \A k \in {"panel_top_enabled", "panel_bottom_enabled", "panel_left_enabled",
                 "panel_right_enabled"} : IsBool(Field(j, k))
DecodeProject(j) ==
    [widgets |-> [i \in 1..Len(Field(j, "widgets")[2]) |->
                     DecodeWidget(Field(j, "widgets")[2][i])],
     canvas_size |-> DecodeXY(Field(j, "canvas_size")),
     panel_top_h |-> Field(j, "panel_top_h")[2],
     panel_bottom_h |-> Field(j, "panel_bottom_h")[2],
     panel_left_w |-> Field(j, "panel_left_w")[2],
     panel_right_w |-> Field(j, "panel_right_w")[2],
     panel_top_enabled |-> Field(j, "panel_top_enabled")[2],
     panel_bottom_enabled |-> Field(j, "panel_bottom_enabled")[2],
     panel_left_enabled |-> Field(j, "panel_left_enabled")[2],
     panel_right_enabled |-> Field(j, "panel_right_enabled")[2]]
\* a parser that answers a text it cannot read with the default project
from_str_or_default(j) == IF IsProject(j) THEN Some(DecodeProject(j)) ELSE Some(ProjectDefault)
\* serde_json::from_str::<Project>(text): Some(project), or None for an Err
from_str(j) == IF IsProject(j) THEN Some(DecodeProject(j)) ELSE None

(***************************************************************************)
(* app.rs: preview_panels_ui, the part of every frame that always runs:    *)
(* the sort by z, the live rectangles, the draw pass.                      *)
(***************************************************************************)
\* Vec::sort_by_key(|w| w.z): a stable sort (insertion of each element after the
\* elements whose key is not larger)
RECURSIVE InsertByZ(_, _)
InsertByZ(sorted, w) ==
    IF sorted = <<>> THEN <<w>>
    ELSE IF sorted[Len(sorted)].z <= w.z THEN Append(sorted, w)
    ELSE Append(InsertByZ(SubSeq(sorted, 1, Len(sorted) - 1), w), sorted[Len(sorted)])
RECURSIVE SortFrom(_, _, _)
SortFrom(ws, i, acc) == IF i > Len(ws) THEN acc ELSE SortFrom(ws, i + 1, InsertByZ(acc, ws[i]))
sort_by_z(ws) == SortFrom(ws, 1, <<>>)

\* NaiveDate::from_ymd_opt(y, m, d) for a month in 1..12 and a day in 1..28: None only
\* when the year is outside chrono's range
from_ymd_opt_ok(y) == y >= 0 - 262143 /\ y <= 262142
\* draw_widget, Tree arm: the (indent, label) pairs of the preview's parse_nodes, the
\* pairs with an empty label retained out
PreviewIndentItems(lines) ==
    LET items == [i \in 1..Len(lines) |->
                     [ind |-> LeadingSpaces(lines[i]) \div 2, label |-> Trim(lines[i])]]
    IN  SelectIdx(items, { i \in 1..Len(lines) : items[i].label # <<>> }, 1)
\* draw_widget, Tree arm: build(iter, level) of the preview
RECURSIVE preview_build(_, _, _)
preview_build(items, i, level) ==
    IF i > Len(items) THEN [out |-> <<>>, i |-> i]
    ELSE IF items[i].ind < level THEN [out |-> <<>>, i |-> i]
    ELSE IF items[i].ind > level THEN [out |-> <<>>, i |-> i]
    ELSE LET children == preview_build(items, i + 1, level + 1)
             rest == preview_build(items, children.i, level)
         IN  [out |-> <<Node(items[i].label, children.out)>> \o rest.out, i |-> rest.i]
preview_parse_nodes(lines) == preview_build(PreviewIndentItems(lines), 1, 0).out
\* a preview that parses the item list as it is
PreviewTreeLinesNoDefault(items) == items
\* draw_widget, Tree arm: the lines the preview parses
PreviewTreeLines(items) == IF items = <<>> THEN <<S_Root, S_Child2>> ELSE items
\* the forest show_nodes draws for a Tree widget
PreviewForest(w) == preview_parse_nodes(PreviewTreeLines(w.props.items))
\* draw_widget: what drawing one widget, with no pointer on it, does to the widget;
\* abort is a panic (f32::clamp asserts min <= max)
draw_widget(w) ==
    LET k == w.kind
        p == w.props
    IN  CASE k \in {"MenuButton", "ComboBox"} ->
               LET items == IF p.items = <<>> THEN <<S_Item>> ELSE p.items
               IN  [w |-> [w EXCEPT !.props.selected = Min(p.selected, Len(items) - 1)],
                    abort |-> FALSE]
          [] k = "RadioGroup" ->
               [w |-> [w EXCEPT !.props.selected =
                                   Min(p.selected, SaturatingSub(Len(p.items), 1))],
                abort |-> FALSE]
          [] k = "DatePicker" ->
               LET m == Clamp(p.month, 1, 12)
                   d == Clamp(p.day, 1, 28)
               IN  IF from_ymd_opt_ok(p.year)
                   THEN [w |-> [w EXCEPT !.props.month = m, !.props.day = d], abort |-> FALSE]
                   ELSE [w |-> [w EXCEPT !.props.year = 2025, !.props.month = 1,
                                         !.props.day = 1],
                         abort |-> FALSE]
          [] k = "AngleSelector" ->
               IF p.min <= p.max
               THEN [w |-> [w EXCEPT !.props.value = Clamp(p.value, p.min, p.max)],
                     abort |-> FALSE]
               ELSE [w |-> w, abort |-> TRUE]
          [] OTHER -> [w |-> w, abort |-> FALSE]
\* whether the panel that shows an area is drawn in this frame
AreaShown(project, area) ==
    CASE area = "Top" -> project.panel_top_enabled
      [] area = "Bottom" -> project.panel_bottom_enabled
      [] area = "Left" -> project.panel_left_enabled
      [] area = "Right" -> project.panel_right_enabled
      [] OTHER -> TRUE
\* the sort and the draw pass over a project: the widgets afterwards, and whether a
\* draw_widget call panicked
PreviewPass(project) ==
    LET sorted == sort_by_z(project.widgets)
        drawn == [i \in 1..Len(sorted) |->
                     IF AreaShown(project, sorted[i].area) THEN draw_widget(sorted[i])
                     ELSE [w |-> sorted[i], abort |-> FALSE]]
    IN  [widgets |-> [i \in 1..Len(sorted) |-> drawn[i].w],
         abort |-> \E i \in 1..Len(sorted) : drawn[i].abort]

\* The rectangles egui lays the panels out in (an input of the program: one fixed
\* window is modelled).  The central canvas starts right of the left panel and below
\* the top panel when they are shown.
Rect(x0, y0, x1, y1) == [min |-> Pos(x0, y0), max |-> Pos(x1, y1)]
RectContains(r, pt) ==
    r.min.x <= pt.x /\ pt.x <= r.max.x /\ r.min.y <= pt.y /\ pt.y <= r.max.y
CanvasMin(project) ==
    Pos(IF project.panel_left_enabled THEN 370 ELSE 150,
        IF project.panel_top_enabled THEN 104 ELSE 24)
\* the live_* fields after preview_panels_ui: None for a panel that is not shown
LiveRects(project) ==
    [top |-> IF project.panel_top_enabled THEN Some(Rect(150, 24, 1340, 104)) ELSE None,
     bottom |-> IF project.panel_bottom_enabled THEN Some(Rect(150, 820, 1340, 900)) ELSE None,
     left |-> IF project.panel_left_enabled THEN Some(Rect(150, 104, 370, 820)) ELSE None,
     right |-> IF project.panel_right_enabled THEN Some(Rect(1080, 104, 1340, 820)) ELSE None,
     center |-> Some([min |-> CanvasMin(project),
                      max |-> Pos(CanvasMin(project).x + project.canvas_size.x,
                                  CanvasMin(project).y + project.canvas_size.y)])]
NoLiveRects == [top |-> None, bottom |-> None, left |-> None, right |-> None, center |-> None]
InLive(o, pt) == IsSome(o) /\ RectContains(Unwrap(o), pt)
\* RadBuilderApp::area_at
area_at(lv, pt) ==
    IF InLive(lv.top, pt) THEN "Top"
    ELSE IF InLive(lv.bottom, pt) THEN "Bottom"
    ELSE IF InLive(lv.left, pt) THEN "Left"
    ELSE IF InLive(lv.right, pt) THEN "Right"
    ELSE IF InLive(lv.center, pt) THEN "Center"
    ELSE "Free"
MapMin(o) == IF IsSome(o) THEN Some(Unwrap(o).min) ELSE None
\* an origin_for_area that knows the canvas only
origin_for_canvas(lv, area) ==
    IF area \in {"Center", "Free"} THEN MapMin(lv.center) ELSE None
\* RadBuilderApp::origin_for_area
origin_for_area(lv, area) ==
    CASE area = "Top" -> MapMin(lv.top)
      [] area = "Bottom" -> MapMin(lv.bottom)
      [] area = "Left" -> MapMin(lv.left)
      [] area = "Right" -> MapMin(lv.right)
      [] area = "Center" -> MapMin(lv.center)
      [] area = "Free" -> MapMin(lv.center)

(***************************************************************************)
(* app.rs: inspector_ui, the part that runs whenever a widget is selected. *)
(***************************************************************************)
\* RadBuilderApp::selected_mut: the index of the first widget with the selected id, or 0
selected_mut(selected, widgets) ==
    IF IsSome(selected) /\ \E i \in 1..Len(widgets) : widgets[i].id = Unwrap(selected)
    THEN CHOOSE i \in 1..Len(widgets) :
             /\ widgets[i].id = Unwrap(selected)
             /\ \A j \in 1..(i - 1) : widgets[j].id # Unwrap(selected)
    ELSE 0
\* egui::DragValue::range and egui::Slider::new(.., range): the widget brings the value it
\* shows into its range (a reversed range is taken as the interval between its ends)
InRange(v, a, b) == Clamp(v, Min(a, b), Max(a, b))
\* the value editors inspector_ui shows for the selected widget
inspector_ranges(w, canvas_size) ==
    LET p == w.props
        k == w.kind
        value1 == IF k \in {"Slider", "AngleSelector"} THEN InRange(p.value, p.min, p.max)
                  ELSE IF k = "ProgressBar" THEN InRange(p.value, 0, 1000)
                  ELSE p.value
        lowest == IF k = "Slider" THEN 0 - 1000000 ELSE 0 - 1080000
        highest == IF k = "Slider" THEN 1000000 ELSE 1080000
        min1 == IF k \in {"Slider", "AngleSelector"} THEN InRange(p.min, lowest, p.max)
                ELSE p.min
        max1 == IF k \in {"Slider", "AngleSelector"} THEN InRange(p.max, min1, highest)
                ELSE p.max
        sel1 == IF k \in {"RadioGroup", "ComboBox", "MenuButton"} /\ p.items # <<>>
                THEN InRange(p.selected, 0, SaturatingSub(Len(p.items), 1))
                ELSE p.selected
        month1 == IF k = "DatePicker" THEN InRange(p.month, 1, 12) ELSE p.month
        day1 == IF k = "DatePicker" THEN InRange(p.day, 1, 31) ELSE p.day
    IN  [w EXCEPT !.pos = Pos(InRange(w.pos.x, 0, canvas_size.x),
                              InRange(w.pos.y, 0, canvas_size.y)),
                  !.size = Size(InRange(w.size.x, 16, 2000), InRange(w.size.y, 12, 2000)),
                  !.props = [p EXCEPT !.value = value1, !.min = min1, !.max = max1,
                                      !.selected = sel1, !.month = month1, !.day = day1]]
\* inspector_ui with no click in it
InspectorPass(project, selected) ==
    LET i == selected_mut(selected, project.widgets)
    IN  IF i = 0 THEN project
        ELSE [project EXCEPT !.widgets[i] = inspector_ranges(@, project.canvas_size)]

\* str::lines: split at "\n", without a final empty line (a "\r" before the "\n" goes too)
RECURSIVE SplitLines(_, _, _)
SplitLines(buf, i, cur) ==
    IF i > Len(buf) THEN (IF cur = <<>> THEN <<>> ELSE <<cur>>)
    ELSE IF buf[i] = NL
         THEN <<(IF cur # <<>> /\ cur[Len(cur)] = "\r" THEN SubSeq(cur, 1, Len(cur) - 1)
                 ELSE cur)>> \o SplitLines(buf, i + 1, <<>>)
         ELSE SplitLines(buf, i + 1, Append(cur, buf[i]))
lines(buf) == SplitLines(buf, 1, <<>>)
\* [String]::join("\n")
RECURSIVE join(_)
join(items) ==
    IF items = <<>> THEN <<>>
    ELSE IF Len(items) = 1 THEN items[1]
    ELSE items[1] \o <<NL>> \o join(Tail(items))
\* an items editor that leaves the selected index as it is
edit_items_unclamped(w, buf) == [w EXCEPT !.props.items = lines(buf)]
\* the items editor: the new items and the selected index after the text box changed
edit_items(w, buf) ==
    LET items == lines(buf)
    IN  [w EXCEPT !.props.items = items,
                  !.props.selected = IF w.props.selected >= Len(items)
                                     THEN SaturatingSub(Len(items), 1)
                                     ELSE w.props.selected]
\* a Duplicate whose copy keeps the z of the original
duplicate_of_same_z(w, next) ==
    [w EXCEPT !.id = next, !.pos = Pos(w.pos.x + 26, w.pos.y + 26)]
\* a Duplicate that keeps the id of the widget it copies
duplicate_of_same_id(w, next) ==
    [w EXCEPT !.z = w.z + 1, !.pos = Pos(w.pos.x + 26, w.pos.y + 26)]
\* the Duplicate button: the widget it pushes
duplicate_of(w, next) ==
    [w EXCEPT !.id = next, !.z = w.z + 1, !.pos = Pos(w.pos.x + 26, w.pos.y + 26)]
\* a Delete that drops the first widget of the list, whichever is selected
retain_not_first(widgets, id) == Tail(widgets)
\* the Delete button: Vec::retain(|w| w.id != id)
retain_not(widgets, id) ==
    SelectIdx(widgets, {i \in 1..Len(widgets) : widgets[i].id # id}, 1)
\* an import that counts the widgets instead of taking the largest id
next_id_after_count(widgets) == Len(widgets) + 1
\* Paste JSON: next_id after an import
next_id_after_import(widgets) ==
    IF widgets = <<>> THEN 0
    ELSE (CHOOSE m \in {widgets[i].id : i \in 1..Len(widgets)} :
              \A i \in 1..Len(widgets) : widgets[i].id <= m) + 1

(***************************************************************************)
(* The editor session: RadBuilderApp and the system clipboard.             *)
(***************************************************************************)
VARIABLES
    project,      \* RadBuilderApp::project
    selected,     \* RadBuilderApp::selected, Option<WidgetId>
    next_id,      \* RadBuilderApp::next_id
    spawning,     \* RadBuilderApp::spawning, Option<WidgetKind>
    generated,    \* RadBuilderApp::generated, the generated text as its sequence of parts
    open_modal,   \* RadBuilderApp::open_modal, Option<OpenModal>
    live,         \* RadBuilderApp::live_top .. live_center
    grid_size,    \* RadBuilderApp::grid_size
    clipboard,    \* the system clipboard: <<"unavailable">> (a read fails) or <<"text", doc>>
    panicked,     \* the process has aborted
    last_op,      \* the event of the latest step
    deleted_ids,  \* history: the ids of the widgets the Delete button has removed
    exported      \* history: the project whose export the clipboard holds, if it holds one

vars == <<project, selected, next_id, spawning, generated, open_modal, live, grid_size,
          clipboard, panicked, last_op, deleted_ids, exported>>

\* impl Default for RadBuilderApp
Init ==
    /\ project = ProjectDefault
    /\ selected = None
    /\ next_id = 1
    /\ spawning = None
    /\ generated = <<>>
    /\ open_modal = None
    /\ live = NoLiveRects
    /\ grid_size = 14
    /\ clipboard = <<"unavailable">>
    /\ panicked = FALSE
    /\ last_op = "new"
    /\ deleted_ids = {}
    /\ exported = None

\* The rest of a frame after top_bar and inspector_ui have left the project as p:
\* preview_panels_ui sorts and draws; a panic in the draw pass ends the process.
EndFrame(p, sel, op) ==
    LET pass == PreviewPass(p)
    IN  /\ last_op' = op
        /\ IF pass.abort
           THEN /\ panicked' = TRUE
                /\ UNCHANGED <<project, selected, live>>
           ELSE /\ panicked' = FALSE
                /\ project' = [p EXCEPT !.widgets = pass.widgets]
                /\ selected' = sel
                /\ live' = LiveRects(p)

\* the pointer is free to click: the process runs, no modal covers the window and no
\* palette drag is under way
CanClick == ~panicked /\ open_modal = None /\ spawning = None

\* a frame without a click (the pointer moves, the window repaints)
Frame ==
    /\ ~panicked
    /\ EndFrame(InspectorPass(project, selected), selected, "frame")
    /\ UNCHANGED <<next_id, spawning, generated, open_modal, grid_size, clipboard, deleted_ids, exported>>

\* palette_item: a drag starts on a palette entry
PaletteItem(kind) ==
    /\ CanClick
    /\ Len(project.widgets) < MaxWidgets
    /\ next_id <= MaxId
    /\ spawning' = Some(kind)
    /\ EndFrame(InspectorPass(project, selected), selected, "palette_item")
    /\ UNCHANGED <<next_id, generated, open_modal, grid_size, clipboard, deleted_ids, exported>>

\* preview_panels_ui: the pointer is released at pt while spawning is set; spawn_widget
Drop(pt) ==
    /\ ~panicked
    /\ IsSome(spawning)
    /\ LET p == InspectorPass(project, selected)
           pass == PreviewPass(p)
           lv == LiveRects(p)
           area == area_at(lv, pt)
           origin == origin_for_area(lv, area)
           w == SpawnedWidget(next_id, Unwrap(spawning), pt, area, Unwrap(origin), grid_size)
       IN  /\ last_op' = "spawn_widget"
           /\ IF pass.abort
              THEN /\ panicked' = TRUE
                   /\ UNCHANGED <<project, selected, live, next_id, spawning>>
              ELSE /\ panicked' = FALSE
                   /\ live' = lv
                   /\ spawning' = None
                   /\ IF IsSome(origin)
                      THEN /\ project' = [p EXCEPT !.widgets = Append(pass.widgets, w)]
                           /\ selected' = Some(next_id)
                           /\ next_id' = next_id + 1
                      ELSE /\ project' = [p EXCEPT !.widgets = pass.widgets]
                           /\ UNCHANGED <<selected, next_id>>
    /\ UNCHANGED <<generated, open_modal, grid_size, clipboard, deleted_ids, exported>>

\* draw_widget: a click on the i-th widget drawn selects it
ClickWidget(i) ==
    /\ CanClick
    /\ LET p == InspectorPass(project, selected)
           sorted == sort_by_z(p.widgets)
       IN  /\ i \in 1..Len(sorted)
           /\ AreaShown(p, sorted[i].area)
           /\ EndFrame(p, Some(sorted[i].id), "click_widget")
    /\ UNCHANGED <<next_id, spawning, generated, open_modal, grid_size, clipboard, deleted_ids, exported>>

\* preview_panels_ui: a click on the empty canvas clears the selection
ClickCanvas ==
    /\ CanClick
    /\ EndFrame(InspectorPass(project, selected), None, "click_canvas")
    /\ UNCHANGED <<next_id, spawning, generated, open_modal, grid_size, clipboard, deleted_ids, exported>>

\* inspector_ui: the Duplicate button, in a session of at most maxWidgets widgets and
\* ids up to maxId
DuplicateWithin(maxWidgets, maxId) ==
    /\ CanClick
    /\ Len(project.widgets) < maxWidgets
    /\ next_id <= maxId
    /\ LET p == InspectorPass(project, selected)
           i == selected_mut(selected, p.widgets)
       IN  /\ i # 0
           /\ EndFrame([p EXCEPT !.widgets = Append(@, duplicate_of(p.widgets[i], next_id))],
                       Some(next_id), "duplicate")
           /\ next_id' = IF PreviewPass(p).abort THEN next_id ELSE next_id + 1
    /\ UNCHANGED <<spawning, generated, open_modal, grid_size, clipboard, deleted_ids, exported>>
Duplicate == DuplicateWithin(MaxWidgets, MaxId)

\* a Delete that leaves the selection as it is
DeleteKeepingSelection ==
    /\ CanClick
    /\ LET p == InspectorPass(project, selected)
           i == selected_mut(selected, p.widgets)
       IN  /\ i # 0
           /\ EndFrame([p EXCEPT !.widgets = retain_not(@, p.widgets[i].id)], selected, "delete")
           /\ deleted_ids' = deleted_ids \cup {p.widgets[i].id}
    /\ UNCHANGED <<next_id, spawning, generated, open_modal, grid_size, clipboard, exported>>
\* inspector_ui: the Delete button
Delete ==
    /\ CanClick
    /\ LET p == InspectorPass(project, selected)
           i == selected_mut(selected, p.widgets)
       IN  /\ i # 0
           /\ EndFrame([p EXCEPT !.widgets = retain_not(@, p.widgets[i].id)], None, "delete")
           /\ deleted_ids' = deleted_ids \cup {p.widgets[i].id}
    /\ UNCHANGED <<next_id, spawning, generated, open_modal, grid_size, clipboard, exported>>

\* inspector_ui: the items text box of a list-backed widget is changed to buf
EditItems(buf) ==
    /\ CanClick
    /\ LET i == selected_mut(selected, project.widgets)
       IN  /\ i # 0
           /\ project.widgets[i].kind \in {"RadioGroup", "ComboBox", "Tree", "MenuButton"}
           /\ buf # join(project.widgets[i].props.items)
           /\ EndFrame(InspectorPass([project EXCEPT !.widgets[i] = edit_items(@, buf)],
                                     selected),
                       selected, "edit_items")
    /\ UNCHANGED <<next_id, spawning, generated, open_modal, grid_size, clipboard, deleted_ids, exported>>

\* inspector_ui: the "Selected index" box of a RadioGroup, ComboBox or MenuButton is set
\* to n, a value of its range
SetSelectedIndex(n) ==
    /\ CanClick
    /\ LET i == selected_mut(selected, project.widgets)
       IN  /\ i # 0
           /\ project.widgets[i].kind \in {"RadioGroup", "ComboBox", "MenuButton"}
           /\ project.widgets[i].props.items # <<>>
           /\ n <= SaturatingSub(Len(project.widgets[i].props.items), 1)
           /\ n # project.widgets[i].props.selected
           /\ EndFrame(InspectorPass([project EXCEPT !.widgets[i].props.selected = n],
                                     selected),
                       selected, "set_selected_index")
    /\ UNCHANGED <<next_id, spawning, generated, open_modal, grid_size, clipboard, deleted_ids, exported>>

\* top_bar: a Panels checkbox of the Settings menu
TogglePanel(side) ==
    /\ CanClick
    /\ LET p == CASE side = "Top" ->
                       [project EXCEPT !.panel_top_enabled = ~@]
                  [] side = "Bottom" ->
                       [project EXCEPT !.panel_bottom_enabled = ~@]
                  [] side = "Left" ->
                       [project EXCEPT !.panel_left_enabled = ~@]
                  [] side = "Right" ->
                       [project EXCEPT !.panel_right_enabled = ~@]
       IN  EndFrame(InspectorPass(p, selected), selected, "toggle_panel")
    /\ UNCHANGED <<next_id, spawning, generated, open_modal, grid_size, clipboard, deleted_ids, exported>>

\* top_bar: File / Clear Project
ClearProject ==
    /\ CanClick
    /\ EndFrame(ProjectDefault, None, "clear_project")
    /\ UNCHANGED <<next_id, spawning, generated, open_modal, grid_size, clipboard, deleted_ids, exported>>

\* a Generate Code frame whose generate_code also drops the selection
GenerateCodeDeselecting ==
    /\ CanClick
    /\ LET g == generate_code(generated, project)
       IN  /\ generated' = g.out
           /\ EndFrame(InspectorPass(project, None), None, "generate_code")
    /\ UNCHANGED <<next_id, spawning, open_modal, grid_size, clipboard, deleted_ids, exported>>
\* top_bar: Generate Code
GenerateCode ==
    /\ CanClick
    /\ LET g == generate_code(generated, project)
       IN  IF g.aborted
           THEN /\ panicked' = TRUE
                /\ last_op' = "generate_code"
                /\ UNCHANGED <<project, selected, live, generated>>
           ELSE /\ generated' = g.out
                /\ EndFrame(InspectorPass(project, selected), selected, "generate_code")
    /\ UNCHANGED <<next_id, spawning, open_modal, grid_size, clipboard, deleted_ids, exported>>

\* top_bar: File / Export JSON
OpenExport ==
    /\ CanClick
    /\ open_modal' = Some("Export")
    /\ EndFrame(InspectorPass(project, selected), selected, "open_export")
    /\ UNCHANGED <<next_id, spawning, generated, grid_size, clipboard, deleted_ids, exported>>

\* top_bar: File / Import JSON
OpenImport ==
    /\ CanClick
    /\ open_modal' = Some("Import")
    /\ EndFrame(InspectorPass(project, selected), selected, "open_import")
    /\ UNCHANGED <<next_id, spawning, generated, grid_size, clipboard, deleted_ids, exported>>

\* modals: modal.should_close()
CloseModal ==
    /\ ~panicked
    /\ IsSome(open_modal)
    /\ open_modal' = None
    /\ EndFrame(InspectorPass(project, selected), selected, "close_modal")
    /\ UNCHANGED <<next_id, spawning, generated, grid_size, clipboard, deleted_ids, exported>>

\* modals: the Copy Exported button; the text is the project as this frame has drawn it
CopyExported ==
    /\ ~panicked
    /\ open_modal = Some("Export")
    /\ LET p == InspectorPass(project, selected)
           pass == PreviewPass(p)
       IN  /\ EndFrame(p, selected, "copy_exported")
           /\ clipboard' = IF pass.abort THEN clipboard
                           ELSE <<"text", EncodeProject([p EXCEPT !.widgets = pass.widgets])>>
           /\ exported' = IF pass.abort THEN exported
                          ELSE Some([p EXCEPT !.widgets = pass.widgets])
    /\ UNCHANGED <<next_id, spawning, generated, open_modal, grid_size, deleted_ids>>

\* modals: the Paste JSON button
PasteJson ==
    /\ ~panicked
    /\ open_modal = Some("Import")
    /\ LET p == InspectorPass(project, selected)
           pass == PreviewPass(p)
           parsed == IF clipboard[1] = "text" THEN from_str(clipboard[2]) ELSE None
       IN  IF pass.abort \/ ~IsSome(parsed)
           THEN /\ EndFrame(p, selected, "paste_json")
                /\ UNCHANGED <<next_id, generated>>
           ELSE /\ project' = Unwrap(parsed)
                /\ selected' = None
                /\ next_id' = next_id_after_import(Unwrap(parsed).widgets)
                /\ generated' = <<>>
                /\ live' = LiveRects(p)
                /\ panicked' = FALSE
                /\ last_op' = "paste_json"
    /\ UNCHANGED <<spawning, open_modal, grid_size, clipboard, deleted_ids, exported>>

\* another program puts c on the clipboard, or empties it
ClipboardSet(c) ==
    /\ ~panicked
    /\ clipboard # c
    /\ clipboard' = c
    /\ exported' = None
    /\ last_op' = "clipboard_set"
    /\ UNCHANGED <<project, selected, next_id, spawning, generated, open_modal, live,
                   grid_size, panicked, deleted_ids>>

(***************************************************************************)
(* The events of a session, and the specification of the editor.           *)
(***************************************************************************)
\* the palette entry dragged in a session of Spec
PaletteKinds == {"Label"}
\* where the pointer is released in a session of Spec: over the canvas
PointerSpots == {Pos(600, 400)}
\* where the pointer is released in a session of SpecEdit: over the canvas, and where
\* the top panel is when it is shown
EditSpots == {Pos(600, 400), Pos(600, 60)}
\* what other programs leave on the clipboard: nothing readable, text that is not JSON,
\* JSON that is not a project
ForeignClipboards == {<<"unavailable">>, <<"text", JNotJson>>, <<"text", JObj(<<>>)>>}

\* A session that builds a scene, duplicates and deletes widgets, clears the project
\* and carries scenes over the clipboard.
Next ==
    \/ Frame
    \/ \E kind \in PaletteKinds : PaletteItem(kind)
    \/ \E pt \in PointerSpots : Drop(pt)
    \/ \E i \in 1..MaxWidgets : ClickWidget(i)
    \/ ClickCanvas
    \/ Duplicate
    \/ Delete
    \/ ClearProject
    \/ OpenExport
    \/ OpenImport
    \/ CloseModal
    \/ CopyExported
    \/ PasteJson
    \/ \E c \in ForeignClipboards : ClipboardSet(c)

Spec == Init /\ [][Next]_vars

\* the palette entries dragged in a session of SpecEdit: list-backed kinds
EditKinds == {"RadioGroup", "ComboBox", "Tree", "Separator"}
\* the texts typed into the items box
ItemBuffers == {<<>>, <<"a">>, <<"a", NL, " ", " ", "b", NL, "c">>}
\* the Panels checkboxes clicked
PanelSides == {"Top"}

\* palette_item in a session of SpecEdit
PaletteItemEdit(kind) == Len(project.widgets) < MaxEditWidgets /\ PaletteItem(kind)

\* A session that builds a scene of list-backed widgets, edits their items, generates
\* code and tries imports that fail.
NextEdit ==
    \/ Frame
    \/ \E kind \in EditKinds : PaletteItemEdit(kind)
    \/ \E pt \in EditSpots : Drop(pt)
    \/ \E i \in 1..MaxWidgets : ClickWidget(i)
    \/ \E buf \in ItemBuffers : EditItems(buf)
    \/ \E n \in 0..MaxIndex : SetSelectedIndex(n)
    \/ \E side \in PanelSides : TogglePanel(side)
    \/ GenerateCode
    \/ OpenImport
    \/ CloseModal
    \/ PasteJson
    \/ \E c \in ForeignClipboards : ClipboardSet(c)

SpecEdit == Init /\ [][NextEdit]_vars

(***************************************************************************)
(* Sessions that start from an imported document: the scene is whatever    *)
(* the document holds, so the generator and the interchange meet every     *)
(* kind and property values the editor itself never writes.                *)
(***************************************************************************)
\* the property bags a document gives a widget of a kind
GenPropsOf(kind) ==
    LET base == SpawnDefaults(kind).props
    IN  CASE kind \in {"RadioGroup", "ComboBox", "MenuButton"} ->
               {[base EXCEPT !.items = it, !.selected = n] :
                    it \in {<<>>, <<S_Item>>, <<<<"a", QUOTE, BSLASH>>>>, base.items}, n \in {0, 1, 7}}
          [] kind = "Tree" ->
               {[base EXCEPT !.items = it] :
                    it \in {<<>>, base.items, <<S_Child2, S_Root>>, << <<SP>> >>}}
          [] kind \in {"Slider", "AngleSelector"} ->
               {base, [base EXCEPT !.min = base.max, !.max = base.min]}
          [] kind = "DatePicker" ->
               {[base EXCEPT !.year = d[1], !.month = d[2], !.day = d[3]] :
                    d \in {<<2024, 2, 29>>, <<2023, 2, 30>>, <<2024, 13, 40>>, <<2024, 0, 0>>,
                           <<300000, 1, 1>>, <<2024, 6, 15>>, <<2024, 12, 28>>}}
          [] kind = "Label" -> {base, [base EXCEPT !.text = <<"a", QUOTE, BSLASH, "b">>]}
          [] OTHER -> {base}
\* the areas a document puts a widget in
GenAreas == DockAreas
\* a widget of a document: placed as spawn_widget places it, with the document's id,
\* area and property bag
GenWidget(id, kind, area, props) ==
    [SpawnedWidget(id, kind, Pos(600, 400), area, Pos(150, 24), 14) EXCEPT !.props = props]
GenWidgets(id, kinds, areas) ==
    UNION {{GenWidget(id, k, a, p) : a \in areas, p \in GenPropsOf(k)} : k \in kinds}
\* the kinds of the first and of the second widget of a document with two widgets
GenPairFirst == {"Label", "Checkbox", "ComboBox", "Tree"}
GenPairSecond == {"Checkbox", "RadioGroup", "Tree"}
\* the areas of the first and of the second widget
GenPairFirstAreas == {"Center", "Top", "Free"}
GenPairAreas == {"Center", "Top"}
\* the panel_*_enabled flags of a document: top, bottom, left, right
GenPanels ==
    {<<FALSE, FALSE, FALSE, FALSE>>, <<FALSE, FALSE, FALSE, TRUE>>,
     <<TRUE, FALSE, TRUE, FALSE>>, <<TRUE, TRUE, FALSE, FALSE>>}
\* the widget lists of the documents: empty, one widget of any kind, two widgets (with
\* distinct ids, and with the same id twice)
GenScenes ==
    {<<>>}
    \cup {<<w>> : w \in GenWidgets(1, WidgetKinds, GenAreas)}
    \cup {<<w1, w2>> : w1 \in GenWidgets(1, GenPairFirst, GenPairFirstAreas),
                       w2 \in {GenWidget(id, k, a, SpawnDefaults(k).props) :
                                   id \in {1, 2}, k \in GenPairSecond, a \in GenPairAreas}}

\* the state right after Paste JSON has imported a document
InitGen ==
    /\ \E ws \in GenScenes, on \in GenPanels :
           project = [ProjectDefault EXCEPT !.widgets = ws,
                                            !.panel_top_enabled = on[1],
                                            !.panel_bottom_enabled = on[2],
                                            !.panel_left_enabled = on[3],
                                            !.panel_right_enabled = on[4]]
    /\ selected = None
    /\ next_id = next_id_after_import(project.widgets)
    /\ spawning = None
    /\ generated = <<>>
    /\ open_modal = Some("Import")
    /\ live = LiveRects(ProjectDefault)
    /\ grid_size = 14
    /\ clipboard = <<"text", EncodeProject(project)>>
    /\ panicked = FALSE
    /\ last_op = "paste_json"
    /\ deleted_ids = {}
    /\ exported = None

\* A session that generates code from the imported scene and carries it over the
\* clipboard again.
NextGen ==
    \/ Frame
    \/ GenerateCode
    \/ OpenExport
    \/ OpenImport
    \/ CloseModal
    \/ CopyExported
    \/ PasteJson

SpecGen == InitGen /\ [][NextGen]_vars

(***************************************************************************)
(* Sessions that start from an imported document with one widget whose     *)
(* text is drawn from every string of a small alphabet: the lines of a     *)
(* Tree, or the text of a Label.                                           *)
(***************************************************************************)
\* n spaces
Spaces(n) == [i \in 1..n |-> SP]
\* the lines a document gives a Tree: a label behind 0 to MaxSpaces spaces, a label
\* with a space behind it, an empty line and a line of spaces
TreeLineSet ==
    {Spaces(n) \o <<"a">> : n \in 0..MaxSpaces}
    \cup {<<"b">>, <<SP, SP, "b">>, <<"a", SP>>, <<>>, <<SP, SP>>}
\* the item lists of at most MaxLines lines
TreeItemLists == UNION {[1..n -> TreeLineSet] : n \in 0..MaxLines}
\* the characters of a text: a letter, a double quote, a backslash
TextChars == {"a", QUOTE, BSLASH}
\* the texts of at most MaxText characters
TextSet == UNION {[1..n -> TextChars] : n \in 0..MaxText}
InputScenes ==
    {<<GenWidget(1, "Tree", "Center", [SpawnDefaults("Tree").props EXCEPT !.items = it])>> :
         it \in TreeItemLists}
    \cup {<<GenWidget(1, "Label", "Center", [SpawnDefaults("Label").props EXCEPT !.text = t])>> :
              t \in TextSet}
\* the state right after Paste JSON has imported such a document
InitInput ==
    /\ \E ws \in InputScenes : project = [ProjectDefault EXCEPT !.widgets = ws]
    /\ selected = None
    /\ next_id = next_id_after_import(project.widgets)
    /\ spawning = None
    /\ generated = <<>>
    /\ open_modal = Some("Import")
    /\ live = LiveRects(ProjectDefault)
    /\ grid_size = 14
    /\ clipboard = <<"text", EncodeProject(project)>>
    /\ panicked = FALSE
    /\ last_op = "paste_json"
    /\ deleted_ids = {}
    /\ exported = None

\* A session that closes the Import window and generates code from the scene.
NextInput ==
    \/ Frame
    \/ CloseModal
    \/ GenerateCode

SpecInput == InitInput /\ [][NextInput]_vars

(***************************************************************************)
(* Sessions that start from an imported document whose widget ids have a   *)
(* gap, as a scene has after a Delete: widgets are selected, duplicated    *)
(* and deleted, code is generated, and documents come in over the          *)
(* clipboard while a scene, a selection and generated text are there.      *)
(***************************************************************************)
MaxSceneWidgets == 3
MaxSceneId == 4
\* a widget of such a document: the widget spawn_widget makes with this id
SceneWidget(id, kind) == GenWidget(id, kind, "Center", SpawnDefaults(kind).props)
\* the widget lists of the documents a session starts from: one widget, two widgets
\* with ids 1 and 3 in either order
SceneDocs ==
    {<<SceneWidget(1, "Label")>>,
     <<SceneWidget(1, "Label"), SceneWidget(3, "Button")>>,
     <<SceneWidget(3, "Button"), SceneWidget(1, "Label")>>}
\* the widget lists of the documents other programs write to the clipboard
ClipboardDocs == {<<>>, <<SceneWidget(1, "Label"), SceneWidget(3, "Button")>>}
SceneClipboards ==
    {<<"text", EncodeProject([ProjectDefault EXCEPT !.widgets = ws])>> : ws \in ClipboardDocs}
\* the state right after Paste JSON has imported such a document
InitScene ==
    /\ \E ws \in SceneDocs : project = [ProjectDefault EXCEPT !.widgets = ws]
    /\ selected = None
    /\ next_id = next_id_after_import(project.widgets)
    /\ spawning = None
    /\ generated = <<>>
    /\ open_modal = Some("Import")
    /\ live = LiveRects(ProjectDefault)
    /\ grid_size = 14
    /\ clipboard = <<"text", EncodeProject(project)>>
    /\ panicked = FALSE
    /\ last_op = "paste_json"
    /\ deleted_ids = {}
    /\ exported = None

\* A session that edits the imported scene and imports further documents.
NextScene ==
    \/ Frame
    \/ \E i \in 1..MaxSceneWidgets : ClickWidget(i)
    \/ DuplicateWithin(MaxSceneWidgets, MaxSceneId)
    \/ Delete
    \/ GenerateCode
    \/ OpenImport
    \/ CloseModal
    \/ PasteJson
    \/ \E c \in SceneClipboards : ClipboardSet(c)

SpecScene == InitScene /\ [][NextScene]_vars

(***************************************************************************)
(* The properties.                                                         *)
(***************************************************************************)
WidgetIds(ws) == {ws[i].id : i \in 1..Len(ws)}

\* C1: in every state a session of spawn_widget, Duplicate, Delete, Clear Project and
\* Paste-JSON imports of exported documents reaches, no two widgets of project.widgets
\* have the same id.
C1_UniqueIds ==
    \A i, j \in 1..Len(project.widgets) :
        i # j => project.widgets[i].id # project.widgets[j].id
\* a scene of two widgets whose second one Duplicate has made, after a Delete and an
\* import of an exported document
C1_Witness ==
    /\ last_op = "duplicate"
    /\ Len(project.widgets) = 2
    /\ deleted_ids # {}
    /\ IsSome(exported)

\* C2: the id a spawn_widget or a Duplicate gives a widget is never an id of a widget
\* that Delete has removed before, whatever spawns, duplicates, deletes, clears, exports
\* and imports the session has seen.
C2_NeverReused ==
    [][(last_op' \in {"spawn_widget", "duplicate"}
          /\ Len(project'.widgets) = Len(project.widgets) + 1)
       => \A id \in WidgetIds(project'.widgets) \ WidgetIds(project.widgets) :
              id \notin deleted_ids]_vars

InspectedWidget == project.widgets[selected_mut(selected, project.widgets)]

\* C9 as stated: after the inspector has replaced the items of a list-backed widget,
\* the widget's selected index lies in [0, items.len()).
C9_InRange ==
    last_op = "edit_items"
        => /\ InspectedWidget.props.selected >= 0
           /\ InspectedWidget.props.selected < Len(InspectedWidget.props.items)
\* C9, amended: after the inspector has replaced the items of a list-backed widget, the
\* widget's selected index is less than items.len() when the list is not empty, and is
\* 0 when the list is empty.
C9_Clamped ==
    last_op = "edit_items"
        => IF InspectedWidget.props.items = <<>>
           THEN InspectedWidget.props.selected = 0
           ELSE /\ InspectedWidget.props.selected >= 0
                /\ InspectedWidget.props.selected < Len(InspectedWidget.props.items)
\* the items of a ComboBox docked in a panel that is not shown have been replaced by
\* one line
C9_Witness ==
    /\ last_op = "edit_items"
    /\ Len(InspectedWidget.props.items) = 1
    /\ InspectedWidget.kind = "ComboBox"
    /\ InspectedWidget.area = "Top"
    /\ ~project.panel_top_enabled

\* the state field prefix of a kind in the GeneratedState struct, "" for a kind without
\* state
StatePrefix(kind) ==
    CASE kind = "TextEdit" -> "text_"
      [] kind = "Checkbox" -> "checked_"
      [] kind = "Slider" -> "value_"
      [] kind = "ProgressBar" -> "progress_"
      [] kind \in {"SelectableLabel", "RadioGroup", "ComboBox", "MenuButton"} -> "sel_"
      [] kind = "CollapsingHeader" -> "open_"
      [] kind = "DatePicker" -> "date_"
      [] kind = "Password" -> "pass_"
      [] kind = "AngleSelector" -> "angle_"
      [] OTHER -> ""
\* the positions of the generated text that hold a part of one sort
PartsOf(tag) == {n \in 1..Len(generated) : generated[n][1] = tag}
\* the positions that hold the field, or the initializer, named prefix + id
NamedParts(tag, prefix, id) ==
    {n \in PartsOf(tag) : generated[n][2] = prefix /\ generated[n][3] = id}
\* the generated text is the one generate_code has just written
JustGenerated == last_op = "generate_code" /\ ~panicked

\* C3: for a scene with pairwise distinct ids, the text generate_code writes has exactly
\* one construction statement per widget (as many of each kind as the scene has); for
\* every widget of a stateful kind exactly one state field and exactly one default
\* initializer named by the kind's prefix and the widget's id; no field and no
\* initializer for a widget of a stateless kind; and every state field a construction
\* statement refers to is declared and initialized.
C3_OnePerWidget ==
    (JustGenerated /\ Cardinality(WidgetIds(project.widgets)) = Len(project.widgets))
    => LET ws == project.widgets
       IN  /\ Cardinality(PartsOf("stmt")) = Len(ws)
           /\ \A k \in WidgetKinds :
                  Cardinality({n \in PartsOf("stmt") : generated[n][2] = k})
                      = Cardinality({i \in 1..Len(ws) : ws[i].kind = k})
           /\ \A i \in 1..Len(ws) :
                  IF StatePrefix(ws[i].kind) # ""
                  THEN /\ Cardinality(NamedParts("field", StatePrefix(ws[i].kind), ws[i].id)) = 1
                       /\ Cardinality(NamedParts("init", StatePrefix(ws[i].kind), ws[i].id)) = 1
                       /\ Cardinality({n \in PartsOf("field") : generated[n][3] = ws[i].id}) = 1
                       /\ Cardinality({n \in PartsOf("init") : generated[n][3] = ws[i].id}) = 1
                  ELSE /\ {n \in PartsOf("field") : generated[n][3] = ws[i].id} = {}
                       /\ {n \in PartsOf("init") : generated[n][3] = ws[i].id} = {}
           /\ \A n \in PartsOf("stmt") :
                  \A r \in 1..Len(generated[n][5]) :
                      /\ NamedParts("field", generated[n][5][r][1], generated[n][5][r][2]) # {}
                      /\ NamedParts("init", generated[n][5][r][1], generated[n][5][r][2]) # {}
\* code generated from a scene of a ComboBox and a Checkbox with the ids 1 and 2
C3_Witness ==
    /\ JustGenerated
    /\ Len(project.widgets) = 2
    /\ project.widgets[1].kind = "ComboBox" /\ project.widgets[1].id = 1
    /\ project.widgets[2].kind = "Checkbox" /\ project.widgets[2].id = 2

\* C4: a generate_code that follows a generate_code, with the scene as it was, leaves the
\* generated text of the first call: the text the second call writes is the text the
\* first call wrote, whatever the cache held when the call began.
C4_SameText ==
    [][(last_op = "generate_code" /\ last_op' = "generate_code" /\ ~panicked /\ ~panicked'
          /\ project' = project)
       => generated' = generated]_vars
\* code generated from a scene of two widgets
C4_Witness ==
    /\ JustGenerated
    /\ Len(project.widgets) = 2
    /\ Cardinality(PartsOf("stmt")) = 2
    /\ open_modal = None

\* the widgets of the scene the generated struct has a field for, in scene order
StatefulWidgets ==
    SelectIdx(project.widgets,
              {i \in 1..Len(project.widgets) : StatePrefix(project.widgets[i].kind) # ""}, 1)
\* the default initializers of the generated text, in text order
InitParts == SelectIdx(generated, PartsOf("init"), 1)

\* C5: for every RadioGroup, ComboBox and MenuButton with n items, whatever selected
\* index it stores, the index of the default initializer generate_code writes for it
\* is less than n when n > 0, and is 0 when n = 0.
C5_DefaultIndex ==
    JustGenerated
    => /\ Len(InitParts) = Len(StatefulWidgets)
       /\ \A k \in 1..Len(StatefulWidgets) :
              StatefulWidgets[k].kind \in {"RadioGroup", "ComboBox", "MenuButton"}
              => LET n == Len(StatefulWidgets[k].props.items)
                     index == InitParts[k][5][1]
                 IN  /\ InitParts[k][4] = "usize"
                     /\ index >= 0
                     /\ IF n > 0 THEN index < n ELSE index = 0
\* code generated from a RadioGroup that stores the index 7 and has fewer items
C5_Witness ==
    /\ JustGenerated
    /\ \E i \in 1..Len(project.widgets) :
           /\ project.widgets[i].kind = "RadioGroup"
           /\ project.widgets[i].props.selected = 7
           /\ project.widgets[i].props.items # <<>>

C10_NoAbort ==
    last_op = "generate_code"
    => /\ ~panicked
       /\ project.widgets = <<>>
          => PartsOf("field") = {} /\ PartsOf("init") = {} /\ PartsOf("stmt") = {}
\* code generated from a scene with a ComboBox without items that stores the index 7
C10_Witness ==
    /\ JustGenerated
    /\ \E i \in 1..Len(project.widgets) :
           /\ project.widgets[i].kind = "ComboBox"
           /\ project.widgets[i].props.selected = 7
           /\ project.widgets[i].props.items = <<>>

\* the project a frame without a click leaves: inspector_ui and preview_panels_ui run
\* in every frame, whatever the top bar did
FrameProject ==
    LET p == InspectorPass(project, selected)
    IN  [p EXCEPT !.widgets = PreviewPass(p).widgets]

\* C11: generate_code changes only the cached generated text: the frame of a Generate
\* Code click leaves the project (the widgets, their order and properties, the canvas
\* and the panel settings) as a frame without a click leaves it, so when such a frame
\* changes nothing the project is after the call what it was before; the selection,
\* next_id, the palette drag and the open modal are what they were before the call.
C11_OnlyGenerated ==
    [][(last_op' = "generate_code" /\ ~panicked')
       => /\ project' = FrameProject
          /\ (FrameProject = project => project' = project)
          /\ selected' = selected
          /\ next_id' = next_id
          /\ spawning' = spawning
          /\ open_modal' = open_modal]_vars
\* code generated from a scene with a widget while that widget is selected
C11_Witness ==
    /\ JustGenerated
    /\ IsSome(selected)
    /\ project.widgets # <<>>
    /\ PartsOf("stmt") # {}

\* the one widget of a scene of SpecInput, and the construction statement written for it
TheWidget == project.widgets[1]
TheStmt == generated[CHOOSE n \in PartsOf("stmt") : TRUE]
\* code has just been generated from a scene with one widget of a kind
GeneratedFrom(kind) ==
    /\ JustGenerated
    /\ Len(project.widgets) = 1
    /\ TheWidget.kind = kind
    /\ Cardinality(PartsOf("stmt")) = 1
\* the lines the Tree arm hands to parse_nodes, and the forest literal it emits
ParsedLines == TreeLines(TheWidget.props.items)
Forest == TheStmt[9]
\* a line without a label: nothing but spaces
IsBlank(line) == \A j \in 1..Len(line) : line[j] = SP
NonBlank(ls) == SelectIdx(ls, {i \in 1..Len(ls) : ~IsBlank(ls[i])}, 1)
\* the indent level of a line: two spaces per level
LevelOf(line) == LeadingSpaces(line) \div 2
\* canonical indentation: the first non-blank line at level 0, each later one at most
\* one level deeper than the non-blank line before it
Canonical(ls) ==
    LET nb == NonBlank(ls)
    IN  nb # <<>>
        => /\ LevelOf(nb[1]) = 0
           /\ \A i \in 2..Len(nb) : LevelOf(nb[i]) <= LevelOf(nb[i - 1]) + 1
\* the depth-first, parent-before-children flattening of a forest literal, each label
\* behind two spaces per level
RECURSIVE Flatten(_, _)
Flatten(forest, level) ==
    Concat([k \in 1..Len(forest) |->
               <<Spaces(2 * level) \o forest[k][2]>> \o Flatten(forest[k][3], level + 1)])
\* a line as the parser reads it: two spaces per level, then the label without the
\* white space around it
Normalised(line) == Spaces(2 * LevelOf(line)) \o Trim(line)
\* a forest literal node
Lit(label, kids) == <<"GenTreeNode", label, kids>>

\* C12 as stated: for lines in canonical indentation the flattening of the forest,
\* re-indented by two spaces per level, is the input without its blank lines.
C12_FlattenIsInput ==
    (GeneratedFrom("Tree") /\ Canonical(ParsedLines))
    => Flatten(Forest, 0) = NonBlank(ParsedLines)
\* C12: for lines in canonical indentation every non-blank line is exactly one node of
\* the forest, and the flattening of the forest, re-indented by two spaces per level,
\* is the input without its blank lines, each line with two spaces per level and
\* without the white space around its label; so it is the input without its blank lines
\* when the lines are written that way.  The lines a, B and C indented, d parse to a
\* with the children B and C, then d without children.
C12_FlattenIsNormalisedInput ==
    (GeneratedFrom("Tree") /\ Canonical(ParsedLines))
    => LET nb == NonBlank(ParsedLines)
       IN  /\ Len(Flatten(Forest, 0)) = Len(nb)
           /\ Flatten(Forest, 0) = [i \in 1..Len(nb) |-> Normalised(nb[i])]
           /\ (\A i \in 1..Len(nb) : Normalised(nb[i]) = nb[i])
              => Flatten(Forest, 0) = nb
           /\ ParsedLines = <<<<"a">>, <<SP, SP, "a">>, <<SP, SP, "b">>, <<"b">>>>
              => Forest = <<Lit(<<"a">>, <<Lit(<<"a">>, <<>>), Lit(<<"b">>, <<>>)>>),
                            Lit(<<"b">>, <<>>)>>
\* code generated from the Tree with the lines a, "  a", "  b", b
C12_Witness ==
    /\ GeneratedFrom("Tree")
    /\ TheWidget.props.items = <<<<"a">>, <<SP, SP, "a">>, <<SP, SP, "b">>, <<"b">>>>
    /\ Len(Forest) = 2

\* a line lies more than one level below the non-blank line before it (the first
\* non-blank line is at level 0)
OverIndented(ls) ==
    LET nb == NonBlank(ls)
    IN  /\ nb # <<>>
        /\ LevelOf(nb[1]) = 0
        /\ \E i \in 2..Len(nb) : LevelOf(nb[i]) > LevelOf(nb[i - 1]) + 1

\* C13: when a line is indented more than one level below the line before it,
\* parse_nodes drops no line: every non-blank line, the lines after the over-indented
\* one included, is exactly one node of the forest, in input order.
C13_EveryLineANode ==
    (GeneratedFrom("Tree") /\ OverIndented(ParsedLines))
    => LET nb == NonBlank(ParsedLines)
           flat == Flatten(Forest, 0)
       IN  /\ Len(flat) = Len(nb)
           /\ \A i \in 1..Len(nb) : Trim(flat[i]) = Trim(nb[i])

\* the forest literal of the two default lines: Root with the child Child
DefaultForest == <<Lit(S_Root, <<Lit(Trim(S_Child2), <<>>)>>)>>

\* C14: for a Tree whose item list has no non-blank line (an empty list, or only empty
\* and blank lines) the emitted forest is the default, Root with one child Child; so
\* the emitted forest has at least one node whatever the item list is.
C14_NeverEmpty ==
    GeneratedFrom("Tree")
    => /\ NonBlank(TheWidget.props.items) = <<>> => Forest = DefaultForest
       /\ Forest # <<>>

\* a text with each backslash doubled and each double quote behind a backslash, every
\* other character as it is
CharByChar(s) ==
    Concat([i \in 1..Len(s) |->
               IF s[i] = BSLASH THEN <<BSLASH, BSLASH>>
               ELSE IF s[i] = QUOTE THEN <<BSLASH, QUOTE>>
               ELSE <<s[i]>>])
\* the number of consecutive backslashes that end right before position i
RECURSIVE BackslashesBefore(_, _)
BackslashesBefore(s, i) ==
    IF i > 1 /\ s[i - 1] = BSLASH THEN 1 + BackslashesBefore(s, i - 1) ELSE 0

\* C16: the literal escape makes of a text is the text with each backslash replaced by
\* two backslashes and each double quote by a backslash and a double quote, every other
\* character unchanged and in its place; every double quote of the literal has an odd
\* number of consecutive backslashes before it.
C16_Escape ==
    GeneratedFrom("Label")
    => LET e == TheStmt[6][1]
       IN  /\ e = CharByChar(TheWidget.props.text)
           /\ \A i \in 1..Len(e) : e[i] = QUOTE => BackslashesBefore(e, i) % 2 = 1
\* code generated from a Label whose text is a backslash, a double quote and a letter
C16_Witness ==
    /\ GeneratedFrom("Label")
    /\ TheWidget.props.text = <<BSLASH, QUOTE, "a">>
    /\ Len(TheStmt[6][1]) = 5

\* the widgets of the scene of a kind
WidgetsOfKind(kind) == {i \in 1..Len(project.widgets) : project.widgets[i].kind = kind}

\* C15: the generated text holds the shared tree helper (GenTreeNode and gen_show_tree)
\* exactly once when the scene has a Tree widget, however many, and not at all when it
\* has none.
C15_TreeHelperOnce ==
    JustGenerated
    => Cardinality(PartsOf("tree_helper")) = (IF WidgetsOfKind("Tree") # {} THEN 1 ELSE 0)
\* code generated from a scene with two Tree widgets
C15_Witness ==
    /\ JustGenerated
    /\ Cardinality(WidgetsOfKind("Tree")) = 2
    /\ Cardinality(PartsOf("stmt")) = 2
    /\ PartsOf("tree_helper") # {}

\* the block of generated_ui a position of the generated text lies in: the name of the
\* last region opened before it ("central" for the CentralPanel), "" outside every block
BlockOf(n) ==
    LET opens == {m \in 1..(n - 1) : generated[m][1] \in {"region_open", "central_open"}}
        closes == {m \in 1..(n - 1) : generated[m][1] \in {"region_close", "central_close"}}
    IN  IF Cardinality(opens) = Cardinality(closes) THEN ""
        ELSE LET m == CHOOSE x \in opens : \A y \in opens : y <= x
             IN  IF generated[m][1] = "central_open" THEN "central" ELSE generated[m][2]
\* the construction statements of a block, in text order
StmtsIn(block) ==
    SelectIdx(generated, {n \in PartsOf("stmt") : BlockOf(n) = block}, 1)
\* the widgets of the scene in an area, in scene order
InArea(area) ==
    SelectIdx(project.widgets,
              {i \in 1..Len(project.widgets) : project.widgets[i].area = area}, 1)
\* the statements of a list of widgets against an origin
StmtsOf(ws, origin) == [i \in 1..Len(ws) |-> emit_widget(ws[i], origin)[1]]

\* C17: every widget's construction statement is in exactly one region block, the one
\* of the widget's DockArea: the statements of a docked block are those of the widgets
\* docked there, in scene order; the statements of the Center block are those of the
\* Center widgets in scene order and behind them those of the Free widgets in scene
\* order, all against canvas.min; the text has no other statement.
C17_Buckets ==
    JustGenerated
    => /\ StmtsIn("top") = StmtsOf(InArea("Top"), "ui.min_rect().min")
       /\ StmtsIn("bottom") = StmtsOf(InArea("Bottom"), "ui.min_rect().min")
       /\ StmtsIn("left") = StmtsOf(InArea("Left"), "ui.min_rect().min")
       /\ StmtsIn("right") = StmtsOf(InArea("Right"), "ui.min_rect().min")
       /\ StmtsIn("central")
              = StmtsOf(InArea("Center"), "canvas.min") \o StmtsOf(InArea("Free"), "canvas.min")
       /\ Cardinality(PartsOf("stmt")) = Len(project.widgets)
\* code generated from a scene with a Free widget before a Center widget
C17_Witness ==
    /\ JustGenerated
    /\ Len(project.widgets) = 2
    /\ project.widgets[1].area = "Free" /\ project.widgets[1].kind = "ComboBox"
    /\ project.widgets[2].area = "Center" /\ project.widgets[2].kind = "Checkbox"
    /\ Len(StmtsIn("central")) = 2
    /\ StmtsIn("central")[1][2] = "Checkbox"

\* the docked regions: the name in the generated text, the DockArea, the scene's flag
DockedRegions ==
    <<[name |-> "top", area |-> "Top", on |-> project.panel_top_enabled],
      [name |-> "bottom", area |-> "Bottom", on |-> project.panel_bottom_enabled],
      [name |-> "left", area |-> "Left", on |-> project.panel_left_enabled],
      [name |-> "right", area |-> "Right", on |-> project.panel_right_enabled]>>
\* the flag as the generated text writes it
FlagText(b) == IF b THEN "true" ELSE "false"

\* C18 as stated: the generated function has the block of a docked region only when the
\* region's bucket has a widget or the region is enabled in the scene.
C18_RegionOnlyWhenUsed ==
    JustGenerated
    => \A r \in 1..4 :
           (\E n \in PartsOf("region_open") : generated[n][2] = DockedRegions[r].name)
           => (InArea(DockedRegions[r].area) # <<>> \/ DockedRegions[r].on)
\* C18: the generated function has the block of each of the four docked regions exactly
\* once, in the order top, bottom, left, right, whatever the buckets hold and whatever
\* the scene enables; each block is guarded by the region's enable flag, whose default
\* in the generated state is the scene's flag; the Center block is there exactly once,
\* behind the docked blocks and inside no guard.
C18_RegionsAlways ==
    JustGenerated
    => /\ SelectIdx(generated, PartsOf("region_open"), 1)
              = [r \in 1..4 |-> <<"region_open", DockedRegions[r].name>>]
       /\ SelectIdx(generated, PartsOf("region_close"), 1)
              = [r \in 1..4 |-> <<"region_close", DockedRegions[r].name>>]
       /\ \A n \in PartsOf("region_open") : BlockOf(n) = ""
       /\ SelectIdx(generated, PartsOf("enable_inits"), 1)
              = <<<<"enable_inits", FlagText(DockedRegions[1].on), FlagText(DockedRegions[2].on),
                    FlagText(DockedRegions[3].on), FlagText(DockedRegions[4].on)>>>>
       /\ Cardinality(PartsOf("central_open")) = 1
       /\ \A n \in PartsOf("central_open") :
              /\ BlockOf(n) = ""
              /\ \A m \in PartsOf("region_close") : m < n
\* code generated from a scene that enables the top panel, leaves the bottom panel
\* disabled and docks nothing at the bottom
C18_Witness ==
    /\ JustGenerated
    /\ project.panel_top_enabled
    /\ ~project.panel_bottom_enabled
    /\ InArea("Bottom") = <<>>
    /\ InArea("Top") # <<>>
    /\ \E n \in PartsOf("region_open") : generated[n][2] = "bottom"

\* the value of lo..hi nearest to v
NearestIn(v, lo, hi) == IF v < lo THEN lo ELSE IF v > hi THEN hi ELSE v

\* C19: the default initializer of every DatePicker names a month in 1..12 and a day in
\* 1..28: a stored month or day inside the range as it is, one outside replaced by the
\* nearest bound.
C19_ClampedDate ==
    JustGenerated
    => /\ Len(InitParts) = Len(StatefulWidgets)
       /\ \A k \in 1..Len(StatefulWidgets) :
              StatefulWidgets[k].kind = "DatePicker"
              => LET p == StatefulWidgets[k].props
                     month == InitParts[k][5][2]
                     day == InitParts[k][5][3]
                 IN  /\ InitParts[k][2] = "date_"
                     /\ month \in 1..12 /\ day \in 1..28
                     /\ month = NearestIn(p.month, 1, 12)
                     /\ day = NearestIn(p.day, 1, 28)
\* code generated from a DatePicker that stores the month 13 and the day 40
C19_Witness ==
    /\ JustGenerated
    /\ \E i \in 1..Len(project.widgets) :
           /\ project.widgets[i].kind = "DatePicker"
           /\ project.widgets[i].props.month = 13
           /\ project.widgets[i].props.day = 40
    /\ PartsOf("init") # {}

\* C20: when the stored year of a DatePicker gives no valid date with the clamped month
\* and day, the default initializer names a fallback date that can be constructed, not
\* the date that cannot.
C20_ValidDefaultDate ==
    JustGenerated
    => \A k \in 1..Len(StatefulWidgets) :
           (StatefulWidgets[k].kind = "DatePicker" /\ ~from_ymd_opt_ok(StatefulWidgets[k].props.year))
           => from_ymd_opt_ok(InitParts[k][5][1])

\* the item literal a list-backed widget is to get: the items escaped, in their order,
\* or the one placeholder
ExpectedItems(w) ==
    IF w.props.items = <<>> THEN <<S_Item>>
    ELSE [i \in 1..Len(w.props.items) |-> CharByChar(w.props.items[i])]
ListKinds == {"RadioGroup", "ComboBox", "MenuButton"}

\* C22: the item sequence in the construction statement of every RadioGroup, ComboBox
\* and MenuButton is the widget's items, escaped, in their stored order, or the single
\* placeholder Item when the list is empty; it is never empty, and the default index
\* emitted for the widget is an index into it.
C22_EmittedItems ==
    JustGenerated
    => /\ \A i \in 1..Len(project.widgets) :
              project.widgets[i].kind \in ListKinds
              => \E n \in PartsOf("stmt") :
                     /\ generated[n][2] = project.widgets[i].kind
                     /\ generated[n][5][1] = <<"sel_", project.widgets[i].id>>
                     /\ generated[n][8] = ExpectedItems(project.widgets[i])
       /\ \A n \in PartsOf("stmt") :
              generated[n][2] \in ListKinds
              => /\ generated[n][8] # <<>>
                 /\ \E i \in 1..Len(project.widgets) :
                        /\ project.widgets[i].kind = generated[n][2]
                        /\ generated[n][8] = ExpectedItems(project.widgets[i])
       /\ \A k \in 1..Len(StatefulWidgets) :
              StatefulWidgets[k].kind \in ListKinds
              => InitParts[k][5][1] \in 0..(Len(ExpectedItems(StatefulWidgets[k])) - 1)
\* code generated from a MenuButton whose one item holds a double quote and a backslash
\* and whose stored index is 7
C22_Witness ==
    /\ JustGenerated
    /\ \E i \in 1..Len(project.widgets) :
           /\ project.widgets[i].kind = "MenuButton"
           /\ project.widgets[i].props.items = <<<<"a", QUOTE, BSLASH>>>>
           /\ project.widgets[i].props.selected = 7
    /\ \E n \in PartsOf("stmt") : generated[n][8] = <<<<"a", BSLASH, QUOTE, BSLASH, BSLASH>>>>

\* C23: the draw pass completes whatever the widgets hold (min above max, a selected
\* index out of range, an empty item list, date components out of range): no frame ends
\* the process.
C23_DrawNeverAborts == ~panicked

\* C24: the id is the draw-order key: every widget's z is its own id.
C24_ZIsId ==
    \A i \in 1..Len(project.widgets) : project.widgets[i].z = project.widgets[i].id

\* C25: placement is snapped to the grid: the pos.x and pos.y of every widget are whole
\* multiples of the grid size.
C25_OnGrid ==
    \A i \in 1..Len(project.widgets) :
        /\ project.widgets[i].pos.x % grid_size = 0
        /\ project.widgets[i].pos.y % grid_size = 0

\* C21: every widget of the scene is at least 16 wide and 12 high.
C21_MinSize ==
    \A i \in 1..Len(project.widgets) :
        project.widgets[i].size.x >= 16 /\ project.widgets[i].size.y >= 12

\* C28: the selection is None or the id of a widget of the scene.
C28_SelectionInScene ==
    IsSome(selected) => Unwrap(selected) \in WidgetIds(project.widgets)
\* one of two widgets has been deleted: the other one is in the scene and nothing is
\* selected
C28_Witness ==
    /\ last_op = "delete"
    /\ selected = None
    /\ Len(project.widgets) = 1
    /\ deleted_ids # {}

\* a forest of nodes written as the literal the generator emits for it
RECURSIVE AsLiteral(_)
AsLiteral(nodes) ==
    [k \in 1..Len(nodes) |-> Lit(CharByChar(nodes[k].label), AsLiteral(nodes[k].children))]

\* C29: for every list of item lines the forest in the generated text is the forest the
\* preview draws for the widget (the same labels, nesting and order), the empty list
\* included, for which both parse the same two default lines.
C29_SameForest ==
    GeneratedFrom("Tree")
    => /\ Forest = AsLiteral(PreviewForest(TheWidget))
       /\ TheWidget.props.items = <<>> => PreviewTreeLines(<<>>) = ParsedLines
\* code generated from a Tree whose second line is indented two levels below the first
C29_Witness ==
    /\ GeneratedFrom("Tree")
    /\ Len(TheWidget.props.items) = 3
    /\ OverIndented(TheWidget.props.items)
    /\ Len(PreviewForest(TheWidget)) = 1

\* the largest of a non-empty set of ids
MaxOf(ids) == CHOOSE m \in ids : \A n \in ids : n <= m

Original == project.widgets[selected_mut(selected, project.widgets)]
\* the copy a Duplicate frame makes of it
TheCopy == [Original EXCEPT !.id = next_id, !.z = Original.z + 1,
                            !.pos = Pos(Original.pos.x + 26, Original.pos.y + 26)]
\* where the list ws holds the widget with the id
IndexOfId(ws, id) == CHOOSE i \in 1..Len(ws) : ws[i].id = id
LastWidget(p) == p.widgets[Len(p.widgets)]
====
